---- MODULE Spec2Model ----
(***************************************************************************)
(* State-machine model of the github-trends backend: the question          *)
(* scheduling path (QuestionsService.scheduleQuestionJob), the Bull job    *)
(* queue wrapper (JobService), the job handler pipeline                    *)
(* (QuestionsService.processQuestionJob), the two fingerprint caches       *)
(* (RedisService), the relational store (PostgresService) and the SSE      *)
(* relay (SSEService).                                                     *)
(*                                                                         *)
(* Every `await` on a store, the queue or an external service is one step  *)
(* of the model (the awaited operation takes effect and the code runs on   *)
(* to the next such await), so that the interleavings of concurrent HTTP   *)
(* requests, the queue worker and the completion listeners are those of    *)
(* the Node.js event loop.                                                 *)
(***************************************************************************)
EXTENDS Integers, Sequences, FiniteSets, TLC

----------------------------------------------------------------------------
(* Bounds of the model *)

\* number of POST /questions requests (scheduleQuestionJob calls)
MaxRequests == 2
\* number of SSE subscriptions (GET /questions/:id/updates)
MaxSubs == 2
\* number of cache-entry expirations (Redis TTL running out)
MaxExpiries == 1
\* number of direct JobService.createJob calls
MaxCalls == 2

\* absent values: of a string, of a record (an absent id is 0)
Null == "null"
None == [none |-> TRUE]

----------------------------------------------------------------------------
(* Inputs *)

\* User prompts, as sequences of characters.
Prompts == { <<"A">>, <<" ", "a">>, <<"b">> }

\* the question text of a direct createJob call
CallPrompts == { <<"b">> }

\* SQL texts the planner can compile a prompt to.
Sqls == { "sql1", "sql2" }

\* String.prototype.toLowerCase on the characters of the model
LowerChar(c) == IF c = "A" THEN "a" ELSE IF c = "B" THEN "b" ELSE c

RECURSIVE TrimStart(_)
TrimStart(s) == IF s # <<>> /\ Head(s) = " " THEN TrimStart(Tail(s)) ELSE s

RECURSIVE TrimEnd(_)
TrimEnd(s) ==
  IF s # <<>> /\ s[Len(s)] = " " THEN TrimEnd(SubSeq(s, 1, Len(s) - 1)) ELSE s

\* userPrompt.trim().toLowerCase()
NormalizePrompt(s) == LET t == TrimEnd(TrimStart(s)) IN [i \in 1..Len(t) |-> LowerChar(t[i])]

\* sha256 hex digest, taken to be collision free: the digest is identified
\* with the text it was computed from.
Sha256(text) == <<"sha256", text>>

\* a faulty variant of the fingerprint below: the text is hashed as it came
calculatePromptHashExact(userPrompt) == Sha256(userPrompt)

\* crypto.createHash("sha256").update(userPrompt.trim().toLowerCase()).digest("hex")
calculatePromptHash(userPrompt) == Sha256(NormalizePrompt(userPrompt))

calculateSqlHash(sql) == Sha256(sql)

QUESTION_JOB_TYPE == "question-processing"

\* a faulty variant of the id below: the key is left out
TypeOnlyId(jobType, jobKey) == <<jobType, ":", 0>>

\* `${jobType}:${jobKey}`
generateCustomId(jobType, jobKey) == <<jobType, ":", jobKey>>

----------------------------------------------------------------------------
(* Errors *)

GenericMessage == "An unexpected error occurred. Please try again later."
AbstainMessage == "Could not generate a safe SQL for this question. Please try refining your prompt."
LlmRawMessage == "LLM service unavailable"
BigQueryRawMessage == "BigQuery quota exceeded"

UserFacingError(message) == [kind |-> "UserFacingError", message |-> message]
Error(message) == [kind |-> "Error", message |-> message]

\* what generateQueryPlanWithSchemaContext can throw
PlannerErrors == { UserFacingError(AbstainMessage), Error(LlmRawMessage) }
\* what BigQueryService.executeQuery can throw
ExecutorErrors == { Error(BigQueryRawMessage) }

\* a faulty variant of the sanitizer below: every reason becomes the generic one
AlwaysGenericReason(err) == GenericMessage

toSafeFailedReason(err) ==
  IF err.kind = "UserFacingError" THEN err.message
  ELSE IF err.kind = "string" THEN err.message
  ELSE GenericMessage

----------------------------------------------------------------------------
(* State *)

VARIABLES
  reqs,          \* scheduleQuestionJob calls in flight, by request
  questions,     \* Postgres table questions: id -> record
  jobMetadata,   \* Postgres table job_metadata: bullJobId -> record
  results,       \* Postgres table question_results: questionId -> result
  promptCache,   \* Redis question:prompt:<hash> -> {jobId, questionId}
  sqlCache,      \* Redis question:sql:<hash> -> {questionId, result, chartConfig, jobId}
  jobs,          \* the Bull queue: job id -> job as stored in Redis
  worker,        \* the queue processor (concurrency 1) and the job object it holds
  finals,        \* store writes started by the job:completed / job:failed listeners
  subs,          \* subscribeToQuestionUpdates calls in flight, by subscriber
  activeConnections, \* SSEService.activeConnections: key -> sink
  timers,        \* pending CONNECTION_CLOSE_TIMEOUT timers: key -> how many
  sinks,         \* per sink: what was written to it and whether it was ended
  calls,         \* direct JobService.createJob calls in flight, by caller
  executions,    \* history: the executor calls made, in order
  expiries,      \* history: how many cache entries have expired
  trace,         \* history: job id -> what its handler computed, once finished
  planner        \* LLMService: the structured plan received, its validation and its SQL

vars == <<reqs, questions, jobMetadata, results, promptCache, sqlCache, jobs,
          worker, finals, subs, activeConnections, timers, sinks, calls,
          executions, expiries, trace, planner>>

ReqIds == 1..MaxRequests
SubIds == 1..MaxSubs
CallIds == 1..MaxCalls

\* a function with one mapping added or overwritten
Put(f, k, v) == [x \in DOMAIN f \cup {k} |-> IF x = k THEN v ELSE f[x]]
\* a function with one key removed
Drop(f, k) == [x \in DOMAIN f \ {k} |-> f[x]]
Empty == <<>>

IdleReq == [pc |-> "idle", userQuestion |-> <<>>, questionIdParam |-> 0,
            promptInfo |-> None, missed |-> FALSE, scan |-> 1,
            existingJob |-> 0, questionId |-> 0, job |-> 0]

IdleWorker == [pc |-> "idle", job |-> None, sql |-> Null, title |-> Null,
               sqlInfo |-> None, queryResult |-> None, returnvalue |-> None,
               error |-> None]

IdleCall == [pc |-> "idle", jobKey |-> 0, userQuestion |-> <<>>,
             skipExistingCheck |-> FALSE, scan |-> 1, job |-> 0,
             existing |-> Null]

\* afterClose is history: whether a subscriber of the same question had
\* already disconnected when this subscription was requested
IdleSub == [pc |-> "idle", questionId |-> 0, scan |-> 1, afterClose |-> FALSE]

\* no plan has been received by the planner
IdlePlanner == [root |-> None, validation |-> None, built |-> None]

\* the services after construction
InitServices ==
  /\ reqs = [r \in ReqIds |-> IdleReq]
  /\ questions = Empty
  /\ jobMetadata = Empty
  /\ results = Empty
  /\ promptCache = Empty
  /\ sqlCache = Empty
  /\ jobs = <<>>
  /\ worker = IdleWorker
  /\ finals = {}
  /\ subs = [s \in SubIds |-> IdleSub]
  /\ activeConnections = Empty
  /\ timers = Empty
  /\ sinks = [s \in SubIds |-> [written |-> <<>>, ended |-> FALSE]]
  /\ calls = [c \in CallIds |-> IdleCall]
  /\ executions = <<>>
  /\ expiries = 0
  /\ trace = <<>>

Init ==
  /\ InitServices
  /\ planner = IdlePlanner

----------------------------------------------------------------------------
(* JobService *)

\* JavaScript truthiness of an optional string
Truthy(str) == str # Null /\ str # ""

\* a faulty variant of the mapping below: the two timestamps are confused
StatusFromSwappedTimestamps(job) ==
  IF job.processedOn /\ ~job.finishedOn
  THEN (IF Truthy(job.failedReason) THEN "failed" ELSE "completed")
  ELSE IF job.finishedOn THEN "processing"
  ELSE "pending"

\* Map Bull job timestamps to a coarse status string.
getJobStatus(job) ==
  IF job.finishedOn
  THEN (IF Truthy(job.failedReason) THEN "failed" ELSE "completed")
  ELSE IF job.processedOn THEN "processing"
  ELSE "pending"

\* the order in which findExistingJob reads the queue's job lists
ScanStates == <<"active", "waiting", "completed", "failed", "delayed">>

\* queue.getJobs([state]) restricted to the jobs with the custom id; `find`
\* returns the first of them in the list's order
JobsInState(state, customId) ==
  { jobs[i] : i \in { k \in 1..Len(jobs) :
                        jobs[k].state = state /\ jobs[k].data.customId = customId } }

\* No job is ever delayed (createJob passes no delay or backoff option), so
\* the read of the last list finds nothing whenever it happens: it is taken
\* together with the read of the list before it.
LastScan == Len(ScanStates) - 1

\* what the getJobs call numbered `scan` of findExistingJob's loop finds
ScanHits(scan, customId) ==
  IF scan < LastScan THEN JobsInState(ScanStates[scan], customId)
  ELSE LET failed == JobsInState(ScanStates[LastScan], customId)
       IN IF failed # {} THEN failed
          ELSE JobsInState(ScanStates[LastScan + 1], customId)

\* queue.add(jobData): the job as Bull first stores it, with the next id
NewJob(customId, params) ==
  [id |-> Len(jobs) + 1,
   data |-> [customId |-> customId, params |-> params, deduplicated |-> FALSE],
   state |-> "waiting", processedOn |-> FALSE, finishedOn |-> FALSE,
   failedReason |-> Null, returnvalue |-> None]

----------------------------------------------------------------------------
(* PostgresService *)

PLACEHOLDER_TITLE == "Processing..."

\* prisma.question.create
createQuestion(id, questionContent) ==
  Put(questions, id, [questionContent |-> questionContent,
                      title |-> PLACEHOLDER_TITLE, bigQuerySql |-> "",
                      sqlHash |-> <<>>, structuredQueryPlanSchema |-> <<>>])

\* rows removed with a question: ON DELETE CASCADE of job_metadata and
\* question_results
CascadeMetadata(questionId) ==
  [b \in { k \in DOMAIN jobMetadata : jobMetadata[k].questionId # questionId }
     |-> jobMetadata[b]]

----------------------------------------------------------------------------
(* QuestionsService.scheduleQuestionJob *)

\* the step after the prompt-hash lookup found nothing to reuse: a question
\* is created unless the caller passed a questionId
ToCreate(req) ==
  IF req.questionIdParam = 0
  THEN [req EXCEPT !.pc = "createQuestion", !.scan = 1, !.existingJob = 0]
  ELSE [req EXCEPT !.pc = "createJob", !.questionId = req.questionIdParam,
                   !.scan = 1, !.existingJob = 0]

\* POST /questions arrives: scheduleQuestionJob({userQuestion, questionId?})
\* is called and does `const promptInfo = await this.getPromptHash(promptHash)`
scheduleQuestionJob(r, questionIds) ==
  /\ reqs[r].pc = "idle"
  /\ IF r = 1 THEN TRUE ELSE reqs[r - 1].pc # "idle"
  /\ \E p \in Prompts, q \in questionIds :
       LET promptHash == calculatePromptHash(p)
           promptInfo == IF promptHash \in DOMAIN promptCache
                         THEN promptCache[promptHash] ELSE None
           req == [IdleReq EXCEPT !.userQuestion = p, !.questionIdParam = q,
                                  !.missed = (promptInfo = None)]
       IN reqs' = [reqs EXCEPT ![r] =
            IF promptInfo # None /\ promptInfo.jobId # 0 /\ promptInfo.questionId # 0
            THEN [req EXCEPT !.pc = "findExistingJob", !.promptInfo = promptInfo]
            ELSE ToCreate(req)]
  /\ UNCHANGED <<questions, jobMetadata, results, promptCache, sqlCache, jobs,
                 worker, finals, subs, activeConnections, timers, sinks,
                 executions, expiries, calls, trace, planner>>

\* QuestionsCreateController: scheduleQuestionJob({userQuestion}), the only
\* call in the repository; it passes no questionId
Schedule(r) == scheduleQuestionJob(r, {0})

\* findExistingJob(QUESTION_JOB_TYPE, promptInfo.questionId): one
\* `await queue.getJobs([state])` of its loop
FindExistingJob(r) ==
  /\ reqs[r].pc = "findExistingJob"
  /\ LET customId == generateCustomId(QUESTION_JOB_TYPE, reqs[r].promptInfo.questionId)
         hits == ScanHits(reqs[r].scan, customId)
     IN IF hits # {}
        THEN \E job \in hits :
               reqs' = [reqs EXCEPT ![r].pc = "isFailed", ![r].existingJob = job.id,
                                    ![r].scan = 1]
        ELSE IF reqs[r].scan < LastScan
        THEN reqs' = [reqs EXCEPT ![r].scan = @ + 1]
        ELSE reqs' = [reqs EXCEPT ![r] = ToCreate(@)]
  /\ UNCHANGED <<questions, jobMetadata, results, promptCache, sqlCache, jobs,
                 worker, finals, subs, activeConnections, timers, sinks,
                 executions, expiries, calls, trace, planner>>

\* const isFailed = await existingJob?.isFailed(); the early return
\* `return { job: existingJob, questionId: promptInfo.questionId }`
IsFailed(r) ==
  /\ reqs[r].pc = "isFailed"
  /\ LET isFailed == jobs[reqs[r].existingJob].state = "failed"
     IN reqs' = [reqs EXCEPT ![r] =
          IF ~isFailed
          THEN [@ EXCEPT !.pc = "returned", !.job = reqs[r].existingJob,
                         !.questionId = reqs[r].promptInfo.questionId,
                         !.existingJob = 0, !.promptInfo = None]
          ELSE ToCreate(@)]
  /\ UNCHANGED <<questions, jobMetadata, results, promptCache, sqlCache, jobs,
                 worker, finals, subs, activeConnections, timers, sinks,
                 executions, expiries, calls, trace, planner>>

\* questionId = crypto.randomUUID(); await this.createQuestion({...}).
\* The fresh id is the request's own number.
CreateQuestion(r) ==
  /\ reqs[r].pc = "createQuestion"
  /\ questions' = createQuestion(r, reqs[r].userQuestion)
  /\ reqs' = [reqs EXCEPT ![r].pc = "createJob", ![r].questionId = r]
  /\ UNCHANGED <<jobMetadata, results, promptCache, sqlCache, jobs, worker,
                 finals, subs, activeConnections, timers, sinks, executions,
                 expiries, calls, trace, planner>>

\* JobService.createJob(jobType, jobKey, params, options, skipExistingCheck)
\* once the existing-job check is skipped or has found nothing:
\* await queue.add(jobData, options)
createJob(jobType, jobKey, params, skipExistingCheck) ==
  Append(jobs, NewJob(generateCustomId(jobType, jobKey), params))

\* createJob's existing-job check, one `await queue.getJobs([state])` of
\* findExistingJob's loop: `if (existingJob) return existingJob`, and with no
\* job found after the last list the call goes on to queue.add
createJobStep(c, call) ==
  LET customId == generateCustomId(QUESTION_JOB_TYPE, call.jobKey)
      hits == ScanHits(call.scan, customId)
  IN IF call.skipExistingCheck
     THEN calls' = [calls EXCEPT ![c] = [call EXCEPT !.pc = "add"]]
     ELSE IF hits # {}
     THEN \E job \in hits :
            calls' = [calls EXCEPT ![c] =
              [call EXCEPT !.pc = "returned", !.job = job.id,
                           !.existing = job.state, !.scan = 1]]
     ELSE calls' = [calls EXCEPT ![c] =
            IF call.scan < LastScan
            THEN [call EXCEPT !.pc = "findExistingJob", !.scan = @ + 1]
            ELSE [call EXCEPT !.pc = "add", !.scan = 1]]

\* a caller invokes createJob(QUESTION_JOB_TYPE, jobKey, {questionId,
\* userQuestion}, options, skipExistingCheck); with the check enabled the first
\* getJobs happens here
CallCreateJob(c) ==
  /\ calls[c].pc = "idle"
  /\ IF c = 1 THEN TRUE ELSE calls[c - 1].pc # "idle"
  /\ \E key \in {1}, p \in CallPrompts, skip \in BOOLEAN :
       createJobStep(c, [IdleCall EXCEPT !.jobKey = key, !.userQuestion = p,
                                         !.skipExistingCheck = skip])
  /\ UNCHANGED <<reqs, questions, jobMetadata, results, promptCache, sqlCache,
                 jobs, worker, finals, subs, activeConnections, timers, sinks,
                 executions, expiries, trace, planner>>

\* the later getJobs of the check
CallFindExistingJob(c) ==
  /\ calls[c].pc = "findExistingJob"
  /\ createJobStep(c, calls[c])
  /\ UNCHANGED <<reqs, questions, jobMetadata, results, promptCache, sqlCache,
                 jobs, worker, finals, subs, activeConnections, timers, sinks,
                 executions, expiries, trace, planner>>

\* const job = await queue.add(jobData, options); return job
CallAdd(c) ==
  /\ calls[c].pc = "add"
  /\ jobs' = createJob(QUESTION_JOB_TYPE, calls[c].jobKey,
                       [questionId |-> calls[c].jobKey,
                        userQuestion |-> calls[c].userQuestion,
                        title |-> Null, sqlHash |-> <<>>],
                       calls[c].skipExistingCheck)
  /\ calls' = [calls EXCEPT ![c].pc = "returned", ![c].job = Len(jobs) + 1]
  /\ UNCHANGED <<reqs, questions, jobMetadata, results, promptCache, sqlCache,
                 worker, finals, subs, activeConnections, timers, sinks,
                 executions, expiries, trace, planner>>

\* const job = await this.jobService.createJob(QUESTION_JOB_TYPE, questionId,
\*   {questionId, userQuestion}, undefined, true)
CreateJob(r) ==
  /\ reqs[r].pc = "createJob"
  /\ jobs' = createJob(QUESTION_JOB_TYPE, reqs[r].questionId,
                       [questionId |-> reqs[r].questionId,
                        userQuestion |-> reqs[r].userQuestion,
                        title |-> Null, sqlHash |-> <<>>], TRUE)
  /\ reqs' = [reqs EXCEPT ![r].pc = "createJobMetadata", ![r].job = Len(jobs) + 1]
  /\ UNCHANGED <<questions, jobMetadata, results, promptCache, sqlCache,
                 worker, finals, subs, activeConnections, timers, sinks,
                 executions, expiries, calls, trace, planner>>

\* await this.postgresService.createJobMetadata({questionId, bullJobId, status:
\* 'pending'}): the insert fails on a missing question (foreign key) or a
\* bullJobId already present (unique index)
CreateJobMetadata(r) ==
  /\ reqs[r].pc = "createJobMetadata"
  /\ IF reqs[r].questionId \in DOMAIN questions /\ reqs[r].job \notin DOMAIN jobMetadata
     THEN /\ jobMetadata' = Put(jobMetadata, reqs[r].job,
                                [questionId |-> reqs[r].questionId,
                                 status |-> "pending", failedReason |-> Null])
          /\ reqs' = [reqs EXCEPT ![r].pc = "cachePromptHash"]
     ELSE /\ reqs' = [reqs EXCEPT ![r].pc = "threw", ![r].promptInfo = None]
          /\ UNCHANGED jobMetadata
  /\ UNCHANGED <<questions, results, promptCache, sqlCache, jobs, worker,
                 finals, subs, activeConnections, timers, sinks, executions,
                 expiries, calls, trace, planner>>

\* await this.cachePromptHash(promptHash, {jobId: job.id, questionId}); return
CachePromptHash(r) ==
  /\ reqs[r].pc = "cachePromptHash"
  /\ promptCache' = Put(promptCache, calculatePromptHash(reqs[r].userQuestion),
                        [jobId |-> reqs[r].job, questionId |-> reqs[r].questionId])
  /\ reqs' = [reqs EXCEPT ![r].pc = "returned", ![r].promptInfo = None]
  /\ UNCHANGED <<questions, jobMetadata, results, sqlCache, jobs, worker,
                 finals, subs, activeConnections, timers, sinks, executions,
                 expiries, calls, trace, planner>>

----------------------------------------------------------------------------
(* SSEService *)

CONNECTION_CLOSE_TIMEOUT == 1000

\* closeConnection(customJobId): for a registered connection,
\* try { connection.raw.end(); activeConnections.delete(customJobId) }
\* catch { log }: when end() throws the entry is not deleted
closeConnection(key, conns, snks, endThrows) ==
  IF key \in DOMAIN conns /\ ~endThrows
  THEN [conns |-> Drop(conns, key),
        sinks |-> [snks EXCEPT ![conns[key]].ended = TRUE]]
  ELSE [conns |-> conns, sinks |-> snks]

\* a faulty variant of the operator below: after a terminal state the reply
\* is ended at once instead of by a timer
writeEventAndCloseNow(key, sink, jobState, snks, tmrs) ==
  [sinks |-> [snks EXCEPT ![sink].written = Append(@, jobState),
                          ![sink].ended = jobState.status \in {"completed", "failed"}],
   timers |-> tmrs]

\* writeEventAndMaybeClose(customJobId, reply, jobState): reply.raw.write(event)
\* and, for a terminal status, setTimeout(closeConnection, CONNECTION_CLOSE_TIMEOUT)
writeEventAndMaybeClose(key, sink, jobState, snks, tmrs) ==
  [sinks |-> [snks EXCEPT ![sink].written = Append(@, jobState)],
   timers |-> IF jobState.status \in {"completed", "failed"}
              THEN Put(tmrs, key, IF key \in DOMAIN tmrs THEN tmrs[key] + 1 ELSE 1)
              ELSE tmrs]

\* a faulty variant of the operator below: the event is written twice
sendUpdateRepeated(key, jobState, writeThrows, endThrows) ==
  IF key \in DOMAIN activeConnections
  THEN LET sink == activeConnections[key]
           once == writeEventAndMaybeClose(key, sink, jobState, sinks, timers)
           twice == writeEventAndMaybeClose(key, sink, jobState, once.sinks, once.timers)
       IN [conns |-> activeConnections, sinks |-> twice.sinks, timers |-> twice.timers]
  ELSE [conns |-> activeConnections, sinks |-> sinks, timers |-> timers]

\* sendUpdate(customJobId, jobState): nothing without a registered connection;
\* otherwise try { writeEventAndMaybeClose } catch { log; closeConnection }
sendUpdate(key, jobState, writeThrows, endThrows) ==
  IF key \in DOMAIN activeConnections
  THEN IF writeThrows
       THEN LET closed == closeConnection(key, activeConnections, sinks, endThrows)
            IN [conns |-> closed.conns, sinks |-> closed.sinks, timers |-> timers]
       ELSE LET sent == writeEventAndMaybeClose(key, activeConnections[key],
                                                jobState, sinks, timers)
            IN [conns |-> activeConnections, sinks |-> sent.sinks,
                timers |-> sent.timers]
  ELSE [conns |-> activeConnections, sinks |-> sinks, timers |-> timers]

----------------------------------------------------------------------------
(* QuestionsService: job states and listeners *)

\* buildJobState(job)
buildJobState(job) ==
  LET status == getJobStatus(job)
  IN [jobId |-> job.data.customId,
      status |-> status,
      error |-> IF Truthy(job.failedReason) THEN job.failedReason ELSE Null,
      title |-> job.data.params.title,
      result |-> IF status = "completed" /\ job.returnvalue # None
                 THEN job.returnvalue.result ELSE None]

----------------------------------------------------------------------------
(* The queue processor: QuestionsService.processQuestionJob under Bull *)

\* a faulty variant of the step below: a job whose executor call is pending
\* is timed out (moved to failed) so that the next one can start
PickAfterTimeout ==
  /\ worker.pc \in {"idle", "executeQuery"}
  /\ \E id \in 1..Len(jobs) :
       /\ jobs[id].state = "waiting"
       /\ \A k \in 1..Len(jobs) : jobs[k].state = "waiting" => id <= k
       /\ jobs' = [k \in 1..Len(jobs) |->
                     IF k = id
                     THEN [jobs[k] EXCEPT !.state = "active", !.processedOn = TRUE]
                     ELSE IF jobs[k].state = "active"
                     THEN [jobs[k] EXCEPT !.state = "failed", !.finishedOn = TRUE,
                                          !.failedReason = GenericMessage]
                     ELSE jobs[k]]
       /\ worker' = [IdleWorker EXCEPT !.pc = "plan", !.job = jobs'[id]]
  /\ UNCHANGED <<reqs, questions, jobMetadata, results, promptCache, sqlCache,
                 finals, subs, activeConnections, timers, sinks, executions,
                 expiries, calls, trace, planner>>

\* Bull takes the oldest waiting job when the processor is free
\* (registerProcessor's concurrency is 1) and marks it active.
Pick ==
  /\ worker.pc = "idle"
  /\ \E id \in 1..Len(jobs) :
       /\ jobs[id].state = "waiting"
       /\ \A k \in 1..Len(jobs) : jobs[k].state = "waiting" => id <= k
       /\ jobs' = [jobs EXCEPT ![id].state = "active", ![id].processedOn = TRUE]
       /\ worker' = [IdleWorker EXCEPT !.pc = "plan", !.job = jobs'[id]]
  /\ UNCHANGED <<reqs, questions, jobMetadata, results, promptCache, sqlCache,
                 finals, subs, activeConnections, timers, sinks, executions,
                 expiries, calls, trace, planner>>

PLANNED_TITLE == "Test Query"

\* a faulty variant of the step below: a draft title is persisted on the
\* question before the planner's outcome is known
PlanPersistingDraft ==
  /\ worker.pc = "plan"
  /\ \/ \E sql \in Sqls :
          worker' = [worker EXCEPT !.pc = "getSqlHash", !.sql = sql,
                                   !.title = PLANNED_TITLE]
     \/ \E err \in PlannerErrors :
          worker' = [worker EXCEPT !.pc = "threw", !.error = err]
  /\ questions' = [q \in DOMAIN questions |->
                     IF q = worker.job.data.params.questionId
                     THEN [questions[q] EXCEPT !.title = PLANNED_TITLE]
                     ELSE questions[q]]
  /\ UNCHANGED <<reqs, jobMetadata, results, promptCache, sqlCache,
                 jobs, finals, subs, activeConnections, timers, sinks,
                 executions, expiries, calls, trace, planner>>

\* await this.llmService.generateQueryPlanWithSchemaContext(userQuestion):
\* the planner returns a compiled SQL text and a title, or throws
Plan ==
  /\ worker.pc = "plan"
  /\ \/ \E sql \in Sqls :
          worker' = [worker EXCEPT !.pc = "getSqlHash", !.sql = sql,
                                   !.title = PLANNED_TITLE]
     \/ \E err \in PlannerErrors :
          worker' = [worker EXCEPT !.pc = "threw", !.error = err]
  /\ UNCHANGED <<reqs, questions, jobMetadata, results, promptCache, sqlCache,
                 jobs, finals, subs, activeConnections, timers, sinks,
                 executions, expiries, calls, trace, planner>>

\* a faulty variant of the test below: the cache is never reused
NeverCachedResult(sqlInfo) == FALSE

\* the test `sqlInfo && sqlInfo.questionId && sqlInfo.result`
HasCachedResult(sqlInfo) ==
  sqlInfo # None /\ sqlInfo.questionId # 0 /\ sqlInfo.result # None

\* const sqlInfo = await this.getSqlHashWithResult(sqlHash) and the test of it
GetSqlHashWithResult ==
  /\ worker.pc = "getSqlHash"
  /\ LET sqlHash == calculateSqlHash(worker.sql)
         sqlInfo == IF sqlHash \in DOMAIN sqlCache THEN sqlCache[sqlHash] ELSE None
     IN worker' = [worker EXCEPT
          !.sqlInfo = sqlInfo,
          !.pc = IF HasCachedResult(sqlInfo)
                 THEN "deleteQuestion" ELSE "updateQuestion"]
  /\ UNCHANGED <<reqs, questions, jobMetadata, results, promptCache, sqlCache,
                 jobs, finals, subs, activeConnections, timers, sinks,
                 executions, expiries, calls, trace, planner>>

PrismaNotFound == Error("Record to delete or update does not exist.")

\* await this.postgresService.deleteQuestion(questionId): job metadata and
\* result rows of the question go with it (ON DELETE CASCADE)
DeleteQuestion ==
  /\ worker.pc = "deleteQuestion"
  /\ LET questionId == worker.job.data.params.questionId
     IN IF questionId \in DOMAIN questions
        THEN /\ questions' = Drop(questions, questionId)
             /\ jobMetadata' = CascadeMetadata(questionId)
             /\ results' = Drop(results, questionId)
             /\ worker' = [worker EXCEPT !.pc = "cachePromptHash"]
        ELSE /\ worker' = [worker EXCEPT !.pc = "threw", !.error = PrismaNotFound]
             /\ UNCHANGED <<questions, jobMetadata, results>>
  /\ UNCHANGED <<reqs, promptCache, sqlCache, jobs, finals, subs,
                 activeConnections, timers, sinks, executions, expiries, calls,
                 trace, planner>>

\* a faulty variant of the step below: the prompt stays mapped to the
\* duplicate job and its deleted question
RepointToDuplicate ==
  /\ worker.pc = "cachePromptHash"
  /\ promptCache' = Put(promptCache,
                        calculatePromptHash(worker.job.data.params.userQuestion),
                        [jobId |-> worker.job.id,
                         questionId |-> worker.job.data.params.questionId])
  /\ worker' = [worker EXCEPT
       !.pc = "returned",
       !.job.data.deduplicated = TRUE,
       !.returnvalue = [result |-> worker.sqlInfo.result,
                        chartConfig |-> worker.sqlInfo.chartConfig]]
  /\ UNCHANGED <<reqs, questions, jobMetadata, results, sqlCache, jobs, finals,
                 subs, activeConnections, timers, sinks, executions, expiries,
                 calls, trace, planner>>

\* await this.cachePromptHash(promptHash, {jobId: sqlInfo.jobId, questionId:
\* sqlInfo.questionId}); job.data.deduplicated = true; return {result, chartConfig}
RepointPromptHash ==
  /\ worker.pc = "cachePromptHash"
  /\ promptCache' = Put(promptCache,
                        calculatePromptHash(worker.job.data.params.userQuestion),
                        [jobId |-> worker.sqlInfo.jobId,
                         questionId |-> worker.sqlInfo.questionId])
  /\ worker' = [worker EXCEPT
       !.pc = "returned",
       !.job.data.deduplicated = TRUE,
       !.returnvalue = [result |-> worker.sqlInfo.result,
                        chartConfig |-> worker.sqlInfo.chartConfig]]
  /\ UNCHANGED <<reqs, questions, jobMetadata, results, sqlCache, jobs, finals,
                 subs, activeConnections, timers, sinks, executions, expiries,
                 calls, trace, planner>>

PrismaUniqueViolation == Error("Unique constraint failed on the fields: (sqlHash)")

\* another question already carries the sqlHash
SqlHashTaken(questionId, sqlHash) ==
  \E q \in DOMAIN questions \ {questionId} : questions[q].sqlHash = sqlHash

\* await this.postgresService.updateQuestion(questionId, {bigQuerySql,
\* structuredQueryPlanSchema, title, sqlHash}). The init migration puts a
\* unique index on questions.sqlHash; createQuestion inserts rows without a
\* sqlHash, which that migration's NOT NULL column would refuse, so the schema
\* in use differs from it and may or may not have kept the index: an update
\* to a sqlHash that another question carries either goes through or fails.
UpdateQuestion ==
  /\ worker.pc = "updateQuestion"
  /\ LET questionId == worker.job.data.params.questionId
         sqlHash == calculateSqlHash(worker.sql)
     IN IF questionId \in DOMAIN questions
        THEN \/ /\ questions' = [questions EXCEPT ![questionId] =
                     [@ EXCEPT !.bigQuerySql = worker.sql,
                               !.structuredQueryPlanSchema = <<"plan", worker.sql>>,
                               !.title = worker.title,
                               !.sqlHash = sqlHash]]
                /\ worker' = [worker EXCEPT !.pc = "executeQuery"]
             \/ /\ SqlHashTaken(questionId, sqlHash)
                /\ worker' = [worker EXCEPT !.pc = "threw",
                                            !.error = PrismaUniqueViolation]
                /\ UNCHANGED questions
        ELSE /\ worker' = [worker EXCEPT !.pc = "threw", !.error = PrismaNotFound]
             /\ UNCHANGED questions
  /\ UNCHANGED <<reqs, jobMetadata, results, promptCache, sqlCache, jobs,
                 finals, subs, activeConnections, timers, sinks, executions,
                 expiries, calls, trace, planner>>

\* generateChartConfig(rows): never throws (falls back to a table config)
generateChartConfig(queryResult) == <<"chart", queryResult.rows>>

\* a faulty variant of the step below: a failed execution takes the SQL and
\* the title back out of the question
ExecuteQueryWithRollback ==
  /\ worker.pc = "executeQuery"
  /\ \/ /\ executions' = Append(executions,
                                [job |-> worker.job.id, sql |-> worker.sql, ok |-> TRUE])
        /\ worker' = [worker EXCEPT !.pc = "cacheSqlHash",
                        !.queryResult = [rows |-> Len(executions) + 1]]
        /\ UNCHANGED questions
     \/ \E err \in ExecutorErrors :
        /\ executions' = Append(executions,
                                [job |-> worker.job.id, sql |-> worker.sql, ok |-> FALSE])
        /\ worker' = [worker EXCEPT !.pc = "threw", !.error = err]
        /\ questions' = [questions EXCEPT
             ![worker.job.data.params.questionId].bigQuerySql = "",
             ![worker.job.data.params.questionId].title = PLACEHOLDER_TITLE]
  /\ UNCHANGED <<reqs, jobMetadata, results, promptCache, sqlCache,
                 jobs, finals, subs, activeConnections, timers, sinks,
                 expiries, calls, trace, planner>>

\* a faulty variant of the step below: an executor error is swallowed and the
\* handler goes on to cache an empty result
ExecuteQueryIgnoringError ==
  /\ worker.pc = "executeQuery"
  /\ \E ok \in BOOLEAN :
       /\ executions' = Append(executions,
                               [job |-> worker.job.id, sql |-> worker.sql, ok |-> ok])
       /\ worker' = [worker EXCEPT !.pc = "cacheSqlHash",
                       !.queryResult = [rows |-> IF ok THEN Len(executions) + 1 ELSE 0]]
  /\ UNCHANGED <<reqs, questions, jobMetadata, results, promptCache, sqlCache,
                 jobs, finals, subs, activeConnections, timers, sinks,
                 expiries, calls, trace, planner>>

\* const queryResult = await this.bigQueryService.executeQuery(sql), then
\* const chartConfig = await this.llmService.generateChartConfig(rows).
\* Every execution returns rows of its own: they are named by its number.
ExecuteQuery ==
  /\ worker.pc = "executeQuery"
  /\ \/ /\ executions' = Append(executions,
                                [job |-> worker.job.id, sql |-> worker.sql, ok |-> TRUE])
        /\ worker' = [worker EXCEPT !.pc = "cacheSqlHash",
                        !.queryResult = [rows |-> Len(executions) + 1]]
     \/ \E err \in ExecutorErrors :
        /\ executions' = Append(executions,
                                [job |-> worker.job.id, sql |-> worker.sql, ok |-> FALSE])
        /\ worker' = [worker EXCEPT !.pc = "threw", !.error = err]
  /\ UNCHANGED <<reqs, questions, jobMetadata, results, promptCache, sqlCache,
                 jobs, finals, subs, activeConnections, timers, sinks,
                 expiries, calls, trace, planner>>

\* await this.cacheSqlHashWithResult(sqlHash, {questionId, result, chartConfig,
\* jobId: job.id}); job.data.params.title = title; job.data.params.sqlHash =
\* sqlHash; return {result: queryResult, chartConfig}
CacheSqlHashWithResult ==
  /\ worker.pc = "cacheSqlHash"
  /\ LET sqlHash == calculateSqlHash(worker.sql)
         chartConfig == generateChartConfig(worker.queryResult)
     IN /\ sqlCache' = Put(sqlCache, sqlHash,
                           [questionId |-> worker.job.data.params.questionId,
                            result |-> worker.queryResult,
                            chartConfig |-> chartConfig,
                            jobId |-> worker.job.id])
        /\ worker' = [worker EXCEPT
             !.pc = "returned",
             !.job.data.params.title = worker.title,
             !.job.data.params.sqlHash = sqlHash,
             !.returnvalue = [result |-> worker.queryResult,
                              chartConfig |-> chartConfig]]
  /\ UNCHANGED <<reqs, questions, jobMetadata, results, promptCache, jobs,
                 finals, subs, activeConnections, timers, sinks, executions,
                 expiries, calls, trace, planner>>

\* the listeners' this.sseService.sendUpdate(job.data.customId,
\* buildJobState(job)); the write to the reply, and the end() of it after a
\* failed write, each succeed or throw
Relay(job) ==
  \E writeThrows \in BOOLEAN, endThrows \in BOOLEAN :
    LET sent == sendUpdate(job.data.customId, buildJobState(job),
                           writeThrows, endThrows)
    IN /\ activeConnections' = sent.conns
       /\ sinks' = sent.sinks
       /\ timers' = sent.timers

\* history: what the handler that just ended had computed
Handled == [sql |-> worker.sql, sqlInfo |-> worker.sqlInfo, error |-> worker.error]

\* a faulty variant of the step below: the completion listener persists the
\* result of a deduplicated job as well
CompletedAlwaysPersisting ==
  /\ worker.pc = "returned"
  /\ LET id == worker.job.id
         job == [worker.job EXCEPT !.state = "completed", !.finishedOn = TRUE,
                                   !.returnvalue = worker.returnvalue]
     IN /\ jobs' = [jobs EXCEPT ![id].state = "completed", ![id].finishedOn = TRUE,
                                ![id].returnvalue = worker.returnvalue]
        /\ Relay(job)
        /\ finals' = finals \cup {[kind |-> "completeJobWithResult",
                                   bullJobId |-> id,
                                   returnvalue |-> job.returnvalue,
                                   failedReason |-> Null]}
        /\ trace' = Put(trace, id, Handled)
  /\ worker' = IdleWorker
  /\ UNCHANGED <<reqs, questions, jobMetadata, results, promptCache, sqlCache,
                 subs, executions, expiries, calls, planner>>

\* The handler returned: Bull stores the return value and moves the job to
\* completed, then emits 'completed' on the processing queue. JobService
\* re-emits job:completed; the QuestionsService listener starts onJobCompleted
\* (which returns at once for a deduplicated job, and otherwise starts
\* completeJobWithResult) and sends buildJobState(job) to the relay.
Completed ==
  /\ worker.pc = "returned"
  /\ LET id == worker.job.id
         job == [worker.job EXCEPT !.state = "completed", !.finishedOn = TRUE,
                                   !.returnvalue = worker.returnvalue]
     IN /\ jobs' = [jobs EXCEPT ![id].state = "completed", ![id].finishedOn = TRUE,
                                ![id].returnvalue = worker.returnvalue]
        /\ Relay(job)
        /\ finals' = IF job.data.deduplicated THEN finals
                     ELSE finals \cup {[kind |-> "completeJobWithResult",
                                        bullJobId |-> id,
                                        returnvalue |-> job.returnvalue,
                                        failedReason |-> Null]}
        /\ trace' = Put(trace, id, Handled)
  /\ worker' = IdleWorker
  /\ UNCHANGED <<reqs, questions, jobMetadata, results, promptCache, sqlCache,
                 subs, executions, expiries, calls, planner>>

\* a faulty variant of the step below: the job of a handler that threw is
\* put back among the waiting jobs to be tried again
FailedThenRetried ==
  /\ worker.pc = "threw"
  /\ jobs' = [jobs EXCEPT ![worker.job.id].state = "waiting"]
  /\ trace' = Put(trace, worker.job.id, Handled)
  /\ worker' = IdleWorker
  /\ UNCHANGED <<reqs, questions, jobMetadata, results, promptCache, sqlCache,
                 finals, subs, activeConnections, timers, sinks, executions,
                 expiries, calls, planner>>

\* The handler threw: Bull stores err.message as the job's failedReason and
\* moves the job to failed, then emits 'failed' with the job object and the
\* error. JobService's listener overwrites failedReason on that job object
\* with toSafeFailedReason(error) and re-emits job:failed; the QuestionsService
\* listener starts onJobFailed (updateJobMetadata) and sends buildJobState(job).
Failed ==
  /\ worker.pc = "threw"
  /\ LET id == worker.job.id
         job == [worker.job EXCEPT !.state = "failed", !.finishedOn = TRUE,
                                   !.failedReason = toSafeFailedReason(worker.error)]
     IN /\ jobs' = [jobs EXCEPT ![id].state = "failed", ![id].finishedOn = TRUE,
                                ![id].failedReason = worker.error.message]
        /\ Relay(job)
        /\ finals' = finals \cup {[kind |-> "updateJobMetadata",
                                   bullJobId |-> id,
                                   returnvalue |-> None,
                                   failedReason |-> job.failedReason]}
        /\ trace' = Put(trace, id, Handled)
  /\ worker' = IdleWorker
  /\ UNCHANGED <<reqs, questions, jobMetadata, results, promptCache, sqlCache,
                 subs, executions, expiries, calls, planner>>

\* a faulty variant of the step below: the metadata update is committed on
\* its own and the result upsert is lost
CompleteJobMetadataOnly(f) ==
  /\ f \in finals
  /\ f.kind = "completeJobWithResult"
  /\ finals' = finals \ {f}
  /\ IF f.bullJobId \in DOMAIN jobMetadata
     THEN jobMetadata' = [jobMetadata EXCEPT ![f.bullJobId].status = "completed"]
     ELSE UNCHANGED jobMetadata
  /\ UNCHANGED <<reqs, questions, results, promptCache, sqlCache, jobs, worker,
                 subs, activeConnections, timers, sinks, executions, expiries,
                 calls, trace, planner>>

\* onJobCompleted: await completeJobWithResult(bullJobId, returnvalue). One
\* transaction: the job_metadata update (which fails without the row) and the
\* question_results upsert. A failure is caught and logged.
CompleteJobWithResult(f) ==
  /\ f \in finals
  /\ f.kind = "completeJobWithResult"
  /\ finals' = finals \ {f}
  /\ IF f.bullJobId \in DOMAIN jobMetadata
     THEN /\ jobMetadata' = [jobMetadata EXCEPT ![f.bullJobId].status = "completed"]
          /\ results' = Put(results, jobMetadata[f.bullJobId].questionId,
                            [rows |-> f.returnvalue.result.rows,
                             chartConfig |-> f.returnvalue.chartConfig])
     ELSE UNCHANGED <<jobMetadata, results>>
  /\ UNCHANGED <<reqs, questions, promptCache, sqlCache, jobs, worker, subs,
                 activeConnections, timers, sinks, executions, expiries, calls,
                 trace, planner>>

\* onJobFailed: await updateJobMetadata(bullJobId, {status: 'failed',
\* failedReason}). The update fails without the row; that is caught and logged.
UpdateJobMetadata(f) ==
  /\ f \in finals
  /\ f.kind = "updateJobMetadata"
  /\ finals' = finals \ {f}
  /\ IF f.bullJobId \in DOMAIN jobMetadata
     THEN jobMetadata' = [jobMetadata EXCEPT ![f.bullJobId].status = "failed",
                                             ![f.bullJobId].failedReason = f.failedReason]
     ELSE UNCHANGED jobMetadata
  /\ UNCHANGED <<reqs, questions, results, promptCache, sqlCache, jobs, worker,
                 subs, activeConnections, timers, sinks, executions, expiries,
                 calls, trace, planner>>

----------------------------------------------------------------------------
(* Subscribers: QuestionsSSEController and subscribeToQuestionUpdates *)

\* setupConnection(customJobId, reply, jobState): the reply is registered
\* under the key (replacing any earlier one, which is left as it is) and the
\* state written; when the write throws, the error is logged and rethrown
\* with the reply registered, and the controller answers 500 without
\* installing its close handler
setupConnection(key, s, jobState, sub) ==
  /\ activeConnections' = Put(activeConnections, key, s)
  /\ \/ LET sent == writeEventAndMaybeClose(key, s, jobState, sinks, timers)
        IN /\ sinks' = sent.sinks
           /\ timers' = sent.timers
           /\ subs' = [subs EXCEPT ![s] = [sub EXCEPT !.pc = "open", !.scan = 1]]
     \/ /\ subs' = [subs EXCEPT ![s] = [sub EXCEPT !.pc = "threw", !.scan = 1]]
        /\ UNCHANGED <<sinks, timers>>

\* subscribeToQuestionUpdates: one getJobs of findExistingJob's loop; with a
\* job found, setupConnection(job.data.customId, reply, buildJobState(job)),
\* which registers the reply under the key (replacing any earlier one) and
\* writes the state; with none after the last list, the 404.
subscribeStep(s, sub) ==
  LET customId == generateCustomId(QUESTION_JOB_TYPE, sub.questionId)
      hits == ScanHits(sub.scan, customId)
  IN IF hits # {}
     THEN \E job \in hits :
            setupConnection(job.data.customId, s, buildJobState(job), sub)
     ELSE /\ subs' = [subs EXCEPT ![s] =
               IF sub.scan < LastScan
               THEN [sub EXCEPT !.pc = "findExistingJob", !.scan = @ + 1]
               ELSE [sub EXCEPT !.pc = "notFound", !.scan = 1]]
          /\ UNCHANGED <<activeConnections, sinks, timers>>

\* GET /questions/:questionId/updates arrives: the first getJobs
Subscribe(s) ==
  /\ subs[s].pc = "idle"
  /\ IF s = 1 THEN TRUE ELSE subs[s - 1].pc # "idle"
  /\ \E q \in ReqIds :
       subscribeStep(s, [IdleSub EXCEPT
         !.questionId = q,
         !.afterClose = \E s0 \in SubIds : /\ subs[s0].pc = "closed"
                                           /\ subs[s0].questionId = q])
  /\ UNCHANGED <<reqs, questions, jobMetadata, results, promptCache, sqlCache,
                 jobs, worker, finals, executions, expiries, calls, trace,
                 planner>>

\* the later getJobs of the loop
SubscribeToQuestionUpdates(s) ==
  /\ subs[s].pc = "findExistingJob"
  /\ subscribeStep(s, subs[s])
  /\ UNCHANGED <<reqs, questions, jobMetadata, results, promptCache, sqlCache,
                 jobs, worker, finals, executions, expiries, calls, trace,
                 planner>>

\* request.raw.on("close", () => this.sseService.closeConnection(questionId)):
\* the key passed is the bare questionId
Disconnect(s) ==
  /\ subs[s].pc = "open"
  /\ \E endThrows \in BOOLEAN :
       LET closed == closeConnection(<<subs[s].questionId>>, activeConnections,
                                     sinks, endThrows)
       IN /\ activeConnections' = closed.conns
          /\ sinks' = closed.sinks
  /\ subs' = [subs EXCEPT ![s].pc = "closed"]
  /\ UNCHANGED <<reqs, questions, jobMetadata, results, promptCache, sqlCache,
                 jobs, worker, finals, timers, executions, expiries, calls,
                 trace, planner>>

\* a CONNECTION_CLOSE_TIMEOUT timer fires: closeConnection(customJobId)
TimerFires(key) ==
  /\ key \in DOMAIN timers
  /\ timers' = IF timers[key] = 1 THEN Drop(timers, key)
               ELSE [timers EXCEPT ![key] = @ - 1]
  /\ \E endThrows \in BOOLEAN :
       LET closed == closeConnection(key, activeConnections, sinks, endThrows)
       IN /\ activeConnections' = closed.conns
          /\ sinks' = closed.sinks
  /\ UNCHANGED <<reqs, questions, jobMetadata, results, promptCache, sqlCache,
                 jobs, worker, finals, subs, executions, expiries, calls,
                 trace, planner>>

----------------------------------------------------------------------------
(* Redis TTL *)

\* a prompt-hash entry reaches its TTL (TTL.DEFAULT, 24 hours)
ExpirePromptHash(h) ==
  /\ expiries < MaxExpiries
  /\ h \in DOMAIN promptCache
  /\ promptCache' = Drop(promptCache, h)
  /\ expiries' = expiries + 1
  /\ UNCHANGED <<reqs, questions, jobMetadata, results, sqlCache, jobs, worker,
                 finals, subs, activeConnections, timers, sinks, executions,
                 calls, trace, planner>>

\* a sql-hash entry reaches its TTL
ExpireSqlHash(h) ==
  /\ expiries < MaxExpiries
  /\ h \in DOMAIN sqlCache
  /\ sqlCache' = Drop(sqlCache, h)
  /\ expiries' = expiries + 1
  /\ UNCHANGED <<reqs, questions, jobMetadata, results, promptCache, jobs,
                 worker, finals, subs, activeConnections, timers, sinks,
                 executions, calls, trace, planner>>

----------------------------------------------------------------------------
(* QuestionsGetController: GET /questions/:questionId *)

\* the job_metadata rows that getQuestionById includes for a question
MetadataOf(questionId) ==
  { jobMetadata[b] : b \in { k \in DOMAIN jobMetadata :
                               jobMetadata[k].questionId = questionId } }

\* getQuestion's answer when questionData.jobMetadata[0] is latestJob (None
\* when the question has no metadata row): status starts as "done"
getQuestionReply(questionResult, latestJob) ==
  LET done == IF latestJob = None THEN FALSE
              ELSE latestJob.status = "completed" /\ questionResult # None
      inProgress == IF latestJob = None \/ done THEN FALSE
                    ELSE latestJob.status \in {"pending", "active"}
  IN [code |-> 200,
      status |-> IF inProgress THEN "in_progress" ELSE "done",
      result |-> IF done THEN questionResult ELSE None]

\* the answers GET /questions/:questionId can give in the current state: 404
\* without the question; the include of jobMetadata has no order, so any of
\* the question's rows can be the first
getQuestion(questionId) ==
  IF questionId \notin DOMAIN questions
  THEN {[code |-> 404, status |-> Null, result |-> None]}
  ELSE LET questionResult == IF questionId \in DOMAIN results
                             THEN results[questionId] ELSE None
       IN IF MetadataOf(questionId) = {}
          THEN {getQuestionReply(questionResult, None)}
          ELSE {getQuestionReply(questionResult, m) : m \in MetadataOf(questionId)}

----------------------------------------------------------------------------
(* BaseBigQueryPlanBuilder: buildQuery *)

DEFAULT_LIMIT == 20
MAX_LIMIT == 50

\* Math.min
Min(a, b) == IF a < b THEN a ELSE b

\* GitHubArchivePlanBuilder.allowedOperators
allowedOperators == {"=", "!=", ">", "<", ">=", "<=", "IN", "BETWEEN"}

\* An optional property of a plan: present with a value, or absent. SQL text
\* is a sequence of tokens; a string literal's text is a sequence of chunks in
\* which each single quote is a chunk of its own.
Present(value) == [present |-> TRUE, value |-> value]

\* a function that returned the SQL tokens, or threw an Error with a message
Return(sql) == [ok |-> TRUE, sql |-> sql, error |-> <<>>]
Throw(message) == [ok |-> FALSE, sql |-> <<>>, error |-> message]

\* Array.prototype.join over token sequences
RECURSIVE Join(_, _)
Join(parts, separator) ==
  IF parts = <<>> THEN <<>>
  ELSE IF Len(parts) = 1 THEN parts[1]
  ELSE parts[1] \o separator \o Join(Tail(parts), separator)

\* the first of the results, in order, that is a throw (map stops there)
FirstThrow(rs) ==
  rs[CHOOSE i \in 1..Len(rs) : ~rs[i].ok /\ \A j \in 1..(i - 1) : rs[j].ok]

\* value.replace(/'/g, "''")
RECURSIVE EscapeQuotes(_)
EscapeQuotes(text) ==
  IF text = <<>> THEN <<>>
  ELSE (IF Head(text) = "'" THEN <<"'", "'">> ELSE <<Head(text)>>)
       \o EscapeQuotes(Tail(text))

\* one scalar as formatValue and the array branch of it write it: a variable
\* reference by its name, a string quoted, anything else as it is
formatScalar(v) ==
  IF v.kind = "var" THEN v.text
  ELSE IF v.kind = "string" THEN <<"'">> \o EscapeQuotes(v.text) \o <<"'">>
  ELSE v.text

\* formatValue(value)
formatValue(value) ==
  IF value.kind = "array"
  THEN <<"(">> \o Join([i \in 1..Len(value.items) |-> formatScalar(value.items[i])],
                       <<",">>) \o <<")">>
  ELSE formatScalar(value)

\* formatExpressionValue(value)
formatExpressionValue(value) ==
  IF value.kind = "var" THEN value.text ELSE formatValue(value)

\* a faulty variant of the operator below: a group is rendered without its
\* parentheses
RECURSIVE buildClauseFlat(_)
buildClauseFlat(item) ==
  IF item.node = "group"
  THEN LET children == [i \in 1..Len(item.filters) |-> buildClauseFlat(item.filters[i])]
       IN IF \E i \in 1..Len(children) : ~children[i].ok
          THEN FirstThrow(children)
          ELSE Return(Join([i \in 1..Len(children) |-> children[i].sql],
                           <<item.logic>>))
  ELSE IF item.op \notin allowedOperators
  THEN Throw(<<"Operator not allowed: ", item.op>>)
  ELSE IF item.op = "BETWEEN"
  THEN IF item.value.kind # "array" \/ Len(item.value.items) # 2
       THEN Throw(<<"BETWEEN operator requires an array value of length 2">>)
       ELSE Return(<<item.column, "BETWEEN">>
                   \o formatExpressionValue(item.value.items[1]) \o <<"AND">>
                   \o formatExpressionValue(item.value.items[2]))
  ELSE IF item.op = "IN" /\ item.value.kind # "array"
  THEN Throw(<<"IN operator requires array value">>)
  ELSE Return(<<item.column, item.op>> \o formatValue(item.value))

\* buildClause(item) of buildFilterClause: a group ('logic' in item) is its
\* children in parentheses joined by its logic; a leaf is checked and written
RECURSIVE buildClause(_)
buildClause(item) ==
  IF item.node = "group"
  THEN LET children == [i \in 1..Len(item.filters) |-> buildClause(item.filters[i])]
       IN IF \E i \in 1..Len(children) : ~children[i].ok
          THEN FirstThrow(children)
          ELSE Return(<<"(">> \o Join([i \in 1..Len(children) |-> children[i].sql],
                                      <<item.logic>>) \o <<")">>)
  ELSE IF item.op \notin allowedOperators
  THEN Throw(<<"Operator not allowed: ", item.op>>)
  ELSE IF item.op = "BETWEEN"
  THEN IF item.value.kind # "array" \/ Len(item.value.items) # 2
       THEN Throw(<<"BETWEEN operator requires an array value of length 2">>)
       ELSE Return(<<item.column, "BETWEEN">>
                   \o formatExpressionValue(item.value.items[1]) \o <<"AND">>
                   \o formatExpressionValue(item.value.items[2]))
  ELSE IF item.op = "IN" /\ item.value.kind # "array"
  THEN Throw(<<"IN operator requires array value">>)
  ELSE Return(<<item.column, item.op>> \o formatValue(item.value))

\* buildFilterClause(filters): filters.map(buildClause).join(" AND ")
buildFilterClause(filters) ==
  LET clauses == [i \in 1..Len(filters) |-> buildClause(filters[i])]
  IN IF \E i \in 1..Len(clauses) : ~clauses[i].ok
     THEN FirstThrow(clauses)
     ELSE Return(Join([i \in 1..Len(clauses) |-> clauses[i].sql], <<"AND">>))

\* a faulty variant of the operator below: the requested limit is not clamped
limitClauseUnclamped(limit, hasOptionalLimit) ==
  IF hasOptionalLimit
  THEN IF limit.present /\ limit.value # 0 /\ limit.value > 0
       THEN <<"LIMIT", ToString(limit.value)>>
       ELSE <<>>
  ELSE <<"LIMIT", ToString(IF limit.present /\ limit.value # 0
                           THEN limit.value ELSE DEFAULT_LIMIT)>>

\* the LIMIT of buildSingleQuery: for a CTE (hasOptionalLimit) only with a
\* positive plan.limit; for the main query Math.min(plan.limit || DEFAULT_LIMIT,
\* MAX_LIMIT)
limitClause(limit, hasOptionalLimit) ==
  IF hasOptionalLimit
  THEN IF limit.present /\ limit.value # 0 /\ limit.value > 0
       THEN <<"LIMIT", ToString(Min(limit.value, MAX_LIMIT))>>
       ELSE <<>>
  ELSE <<"LIMIT", ToString(Min(IF limit.present /\ limit.value # 0
                               THEN limit.value ELSE DEFAULT_LIMIT,
                               MAX_LIMIT))>>

\* a faulty variant of the operator below: the columns are not checked
buildSingleQueryUnchecked(plan, hasOptionalLimit) ==
  LET where == IF plan.filters.present /\ Len(plan.filters.value) # 0
               THEN buildFilterClause(plan.filters.value)
               ELSE Return(<<"1=1">>)
  IN IF ~where.ok THEN where
     ELSE Return(<<"SELECT">>
                 \o Join([i \in 1..Len(plan.columns) |-> <<plan.columns[i]>>], <<",">>)
                 \o <<"FROM">> \o plan.table \o <<"WHERE">> \o where.sql
                 \o limitClause(plan.limit, hasOptionalLimit))

\* buildSingleQuery(plan, _cteNames, hasOptionalLimit)
buildSingleQuery(plan, hasOptionalLimit) ==
  IF Len(plan.columns) = 0 \/ \E i \in 1..Len(plan.columns) : plan.columns[i] = "*"
  THEN Throw(<<"Invalid columns">>)
  ELSE LET where == IF plan.filters.present /\ Len(plan.filters.value) # 0
                    THEN buildFilterClause(plan.filters.value)
                    ELSE Return(<<"1=1">>)
           groupBy == IF Len(plan.groupBy) # 0
                      THEN <<"GROUP BY">>
                           \o Join([i \in 1..Len(plan.groupBy) |-> <<plan.groupBy[i]>>],
                                   <<",">>)
                      ELSE <<>>
           orderBy == IF Len(plan.orderBy) # 0
                      THEN <<"ORDER BY">>
                           \o Join([i \in 1..Len(plan.orderBy) |->
                                      <<plan.orderBy[i].column>>
                                      \o (IF plan.orderBy[i].direction # ""
                                          THEN <<plan.orderBy[i].direction>>
                                          ELSE <<>>)],
                                   <<",">>)
                      ELSE <<>>
       IN IF ~where.ok THEN where
          ELSE Return(<<"SELECT">>
                      \o Join([i \in 1..Len(plan.columns) |-> <<plan.columns[i]>>],
                              <<",">>)
                      \o <<"FROM">> \o plan.table \o <<"WHERE">> \o where.sql
                      \o groupBy \o orderBy
                      \o limitClause(plan.limit, hasOptionalLimit))

\* buildQuery(root): the CTEs in order, each `name AS (query)`, after WITH
\* and joined by commas; then a line break and the main query
buildQuery(root) ==
  LET ctes == [i \in 1..Len(root.ctes) |-> buildSingleQuery(root.ctes[i].query, TRUE)]
  IN IF \E i \in 1..Len(ctes) : ~ctes[i].ok
     THEN FirstThrow(ctes)
     ELSE LET main == buildSingleQuery(root.main_query, FALSE)
          IN IF ~main.ok THEN main
             ELSE IF Len(ctes) # 0
             THEN Return(<<"WITH">>
                         \o Join([i \in 1..Len(ctes) |->
                                    <<root.ctes[i].name, "AS", "(">>
                                    \o ctes[i].sql \o <<")">>],
                                 <<",">>)
                         \o <<"\n">> \o main.sql)
             ELSE main

----------------------------------------------------------------------------
(* LLMService: validatePlan, and the plans the model may return *)

\* c?.trim() over the column names used here
TrimColumn(c) == IF c = " * " THEN "*" ELSE c

IsDigit(t) == t \in {"0", "1", "2", "3", "4", "5", "6", "7", "8", "9"}

\* /githubarchive\.day\.[0-9]{4}\*/.test(table) || /githubarchive\.day\.\*/.test(table).
\* A table name is a sequence of characters in which the text
\* "githubarchive.day." is one element.
usesWildcardDayTable(table) ==
  \E i \in 1..Len(table) :
    /\ table[i] = "githubarchive.day."
    /\ \/ /\ i + 5 <= Len(table)
          /\ \A k \in 1..4 : IsDigit(table[i + k])
          /\ table[i + 5] = "*"
       \/ /\ i + 1 <= Len(table)
          /\ table[i + 1] = "*"

\* the test of main.filters.some(...): a top-level entry with a column and an
\* op (a leaf) on _TABLE_SUFFIX with BETWEEN, IN or =
hasSuffixFilter(main) ==
  /\ main.filters.present
  /\ \E i \in 1..Len(main.filters.value) :
       LET f == main.filters.value[i]
       IN /\ f.node = "leaf"
          /\ f.column = "_TABLE_SUFFIX"
          /\ f.op \in {"BETWEEN", "IN", "="}

Accept == [ok |-> TRUE, reason |-> ""]
Reject(reason) == [ok |-> FALSE, reason |-> reason]

\* a faulty variant of the operator below: the wildcard day table is not
\* looked at
validatePlanWithoutSuffixRule(root) ==
  LET main == root.main_query
  IN IF main.table = <<>> THEN Reject("Missing table")
     ELSE IF Len(main.columns) = 0 THEN Reject("Missing columns")
     ELSE IF \E i \in 1..Len(main.columns) : TrimColumn(main.columns[i]) = "*"
     THEN Reject("Wildcard columns are not allowed")
     ELSE Accept

\* validatePlan(root), for a root that is an object with a main_query
validatePlan(root) ==
  LET main == root.main_query
  IN IF main.table = <<>> THEN Reject("Missing table")
     ELSE IF Len(main.columns) = 0 THEN Reject("Missing columns")
     ELSE IF \E i \in 1..Len(main.columns) : TrimColumn(main.columns[i]) = "*"
     THEN Reject("Wildcard columns are not allowed")
     ELSE IF usesWildcardDayTable(main.table) /\ ~hasSuffixFilter(main)
     THEN Reject("Wildcard day table requires _TABLE_SUFFIX filter")
     ELSE Accept

\* Values and filter nodes of a plan
Str(chunks) == [kind |-> "string", text |-> chunks, items |-> <<>>]
Num(digits) == [kind |-> "number", text |-> <<digits>>, items |-> <<>>]
Var(name) == [kind |-> "var", text |-> <<name>>, items |-> <<>>]
Arr(items) == [kind |-> "array", text |-> <<>>, items |-> items]

Leaf(column, op, value) ==
  [node |-> "leaf", logic |-> "", filters |-> <<>>,
   column |-> column, op |-> op, value |-> value]
Group(logic, filters) ==
  [node |-> "group", logic |-> logic, filters |-> filters,
   column |-> "", op |-> "", value |-> Num("0")]

MaxDepth == 2
MaxChildren == 2
MaxCtes == 2

SeqsUpTo(S, n) == UNION { [1..k -> S] : k \in 0..n }

TypeIsPush == Leaf("type", "=", Str(<<"PushEvent">>))
IdLike == Leaf("id", "LIKE", Str(<<"%test%">>))
BetweenOne == Leaf("created_at", "BETWEEN", Arr(<<Str(<<"2024-01-01">>)>>))
InScalar == Leaf("type", "IN", Str(<<"PushEvent">>))
SuffixBetween ==
  Leaf("_TABLE_SUFFIX", "BETWEEN", Arr(<<Str(<<"0101">>), Str(<<"0131">>)>>))
SuffixEquals == Leaf("_TABLE_SUFFIX", "=", Str(<<"0101">>))
SuffixAfter == Leaf("_TABLE_SUFFIX", ">", Str(<<"0101">>))

\* the leaves that are put into groups
NestedLeaves == {TypeIsPush, IdLike, BetweenOne, InScalar}

\* the leaves that appear at the top of a filter list only
TopLeaves ==
  { Leaf("n", ">", Num("1")),
    Leaf("type", "IN", Arr(<<Str(<<"PushEvent">>), Str(<<"WatchEvent">>)>>)),
    Leaf("repo.name", "=", Str(<<"user", "'", "s-repo">>)),
    Leaf("created_at", "BETWEEN", Str(<<"2024-01-01">>)),
    Leaf("created_at", "BETWEEN", Arr(<<Num("1"), Num("2"), Num("3")>>)),
    Leaf("n", ">=", Var("threshold")),
    Leaf("n", "IN", Num("1")),
    SuffixBetween, SuffixEquals, SuffixAfter }

\* the groups of exactly the given depth: a group of depth 1 holds up to
\* MaxChildren leaves; a deeper group holds one group of the depth below,
\* alone or with one leaf before or after it
RECURSIVE Groups(_)
Groups(depth) ==
  IF depth = 1
  THEN { Group(logic, filters) :
           logic \in {"AND", "OR"}, filters \in SeqsUpTo(NestedLeaves, MaxChildren) }
  ELSE LET below == Groups(depth - 1)
       IN { Group(logic, <<g>>) : logic \in {"AND", "OR"}, g \in below }
          \cup { Group(logic, <<leaf, g>>) :
                   logic \in {"AND", "OR"}, leaf \in NestedLeaves, g \in below }
          \cup { Group(logic, <<g, leaf>>) :
                   logic \in {"AND", "OR"}, leaf \in NestedLeaves, g \in below }

\* the filter trees of at most the given depth
FilterTrees(depth) == NestedLeaves \cup UNION { Groups(d) : d \in 1..depth }

\* filter lists: none, one tree of any depth, or two of leaves and flat groups
FilterLists(depth) ==
  {<<>>}
  \cup { <<t>> : t \in FilterTrees(depth) \cup TopLeaves }
  \cup { <<t, u>> : t \in FilterTrees(1) \cup TopLeaves,
                    u \in FilterTrees(1) \cup TopLeaves }

Absent(value) == [present |-> FALSE, value |-> value]

DayTable == <<"githubarchive.day.", "2", "0", "2", "5", "0", "1", "0", "1">>

Tables ==
  { DayTable,
    <<"githubarchive.day.", "2", "0", "2", "5", "*">>,
    <<"githubarchive.day.", "*">>,
    <<"githubarchive.day.", "2", "0", "2", "5", "0", "1", "*">>,
    <<"bigquery-public-data", ".", "githubarchive.day.", "2", "0", "2", "5", "*">>,
    <<"recent_events">>,
    <<>> }

ColumnLists == { <<>>, <<"*">>, <<"id">>, <<"id", "type">>, <<"id", "*">>, <<" * ">> }

Limits ==
  { Absent(0) } \cup { Present(n) : n \in {0 - 1, 0, 1, 10, 20, 50, 51, 100} }

\* plans that differ in their filters
FilterPlans(depth) ==
  { [table |-> DayTable, columns |-> <<"id">>, filters |-> Present(f),
     limit |-> Present(10), groupBy |-> <<>>, orderBy |-> <<>>] :
    f \in FilterLists(depth) }

\* plans that differ in table, columns, limit, grouping and order
ShapePlans ==
  [ table : Tables,
    columns : ColumnLists,
    filters : { Absent(<<>>), Present(<<>>), Present(<<TypeIsPush>>),
                Present(<<SuffixBetween>>), Present(<<TypeIsPush, SuffixEquals>>),
                Present(<<SuffixAfter>>), Present(<<Group("OR", <<SuffixEquals>>)>>),
                Present(<<IdLike>>) },
    limit : Limits,
    groupBy : { <<>>, <<"type">> },
    orderBy : { <<>>, <<[column |-> "n", direction |-> "DESC"],
                        [column |-> "id", direction |-> ""]>> } ]

\* a CTE query that compiles
CtePlan ==
  [table |-> DayTable, columns |-> <<"id", "type">>, filters |-> Absent(<<>>),
   limit |-> Absent(0), groupBy |-> <<>>, orderBy |-> <<>>]

\* the queries of CTEs: the one above, and those that differ from it in the
\* columns, in the filters, in the limit or in the table
CtePlans ==
  { [CtePlan EXCEPT !.columns = c] : c \in { <<"id", "type">>, <<>>, <<"*">> } }
  \cup { [CtePlan EXCEPT !.columns = <<>>, !.filters = Present(<<IdLike>>)] }
  \cup { [CtePlan EXCEPT !.filters = Present(f)] :
           f \in { <<TypeIsPush>>, <<IdLike>>,
                   <<Group("AND", <<TypeIsPush, Group("OR", <<BetweenOne>>)>>)>> } }
  \cup { [CtePlan EXCEPT !.limit = Present(n)] : n \in {0 - 1, 0, 10, 100} }
  \cup { [CtePlan EXCEPT !.table = <<"githubarchive.day.", "2", "0", "2", "5", "*">>,
                         !.filters = f] :
           f \in { Absent(<<>>), Present(<<SuffixBetween>>) } }

\* the main queries used together with CTEs
MainPlansWithCtes ==
  [ table : { <<"recent_events">> },
    columns : { <<>>, <<"id">> },
    filters : { Present(<<>>), Present(<<InScalar>>) },
    limit : { Absent(0) },
    groupBy : { <<>> },
    orderBy : { <<>> } ]

\* the structured plans the model may return: filter trees of at most the
\* given depth, and at most the given number of CTEs
RootPlans(depth, ctes) ==
  { [ctes |-> <<>>, main_query |-> m] : m \in FilterPlans(depth) \cup ShapePlans }
  \cup { [ctes |-> [i \in 1..Len(qs) |->
                      [name |-> "cte" \o ToString(i), query |-> qs[i]]],
          main_query |-> m] :
         qs \in SeqsUpTo(CtePlans, ctes) \ {<<>>}, m \in MainPlansWithCtes }

\* the plan held by the planner is validated
ValidatePlan ==
  /\ planner.root # None
  /\ planner.validation = None
  /\ planner' = [planner EXCEPT !.validation = validatePlan(planner.root)]
  /\ UNCHANGED <<reqs, questions, jobMetadata, results, promptCache, sqlCache,
                 jobs, worker, finals, subs, activeConnections, timers, sinks,
                 calls, executions, expiries, trace>>

\* the plan held by the planner is compiled
BuildQuery ==
  /\ planner.root # None
  /\ planner.built = None
  /\ planner' = [planner EXCEPT !.built = buildQuery(planner.root)]
  /\ UNCHANGED <<reqs, questions, jobMetadata, results, promptCache, sqlCache,
                 jobs, worker, finals, subs, activeConnections, timers, sinks,
                 calls, executions, expiries, trace>>

----------------------------------------------------------------------------
(* PostgreSQL or Redis unavailable *)

DatabaseConnectionLost == Error("Database connection lost")
RedisConnectionTimeout == Error("Redis connection timeout")

\* scheduleQuestionJob: an awaited PostgresService or RedisService call
\* (getPromptHash, createQuestion, createJobMetadata, cachePromptHash) rejects.
\* Nothing catches it there, so the call rejects and the controller answers 500.
ScheduleStoreFailure(r) ==
  /\ reqs[r].pc \in {"idle", "createQuestion", "createJobMetadata", "cachePromptHash"}
  /\ IF r = 1 THEN TRUE ELSE reqs[r - 1].pc # "idle"
  /\ reqs' = [reqs EXCEPT ![r].pc = "threw"]
  /\ UNCHANGED <<questions, jobMetadata, results, promptCache, sqlCache, jobs,
                 worker, finals, subs, activeConnections, timers, sinks,
                 executions, expiries, calls, trace, planner>>

\* processQuestionJob: an awaited store or cache call rejects; the catch of
\* the handler logs and rethrows
HandlerStoreFailure ==
  /\ worker.pc \in {"getSqlHash", "deleteQuestion", "cachePromptHash",
                    "updateQuestion", "cacheSqlHash"}
  /\ worker' = [worker EXCEPT
       !.pc = "threw",
       !.error = IF worker.pc \in {"deleteQuestion", "updateQuestion"}
                 THEN DatabaseConnectionLost ELSE RedisConnectionTimeout]
  /\ UNCHANGED <<reqs, questions, jobMetadata, results, promptCache, sqlCache,
                 jobs, finals, subs, activeConnections, timers, sinks,
                 executions, expiries, calls, trace, planner>>

\* onJobCompleted / onJobFailed: the awaited completeJobWithResult or
\* updateJobMetadata rejects (the transaction commits nothing); the catch
\* logs the error and the listener ends
ListenerStoreFailure(f) ==
  /\ f \in finals
  /\ finals' = finals \ {f}
  /\ UNCHANGED <<reqs, questions, jobMetadata, results, promptCache, sqlCache,
                 jobs, worker, subs, activeConnections, timers, sinks,
                 executions, expiries, calls, trace, planner>>

----------------------------------------------------------------------------
(* The system *)

PromptHashes == { calculatePromptHash(p) : p \in Prompts }
SqlHashes == { calculateSqlHash(sql) : sql \in Sqls }
CustomIds == { generateCustomId(QUESTION_JOB_TYPE, q) : q \in ReqIds }

\* the jobs' side: the queue processor and the listeners' store writes
Process ==
  \/ Pick
  \/ Plan
  \/ GetSqlHashWithResult
  \/ DeleteQuestion
  \/ RepointPromptHash
  \/ UpdateQuestion
  \/ ExecuteQuery
  \/ CacheSqlHashWithResult
  \/ Completed
  \/ Failed
  \/ \E f \in finals : CompleteJobWithResult(f)
  \/ \E f \in finals : UpdateJobMetadata(f)

\* POST /questions requests, the queue and the caches' expiry
Next ==
  \/ \E r \in ReqIds : Schedule(r)
  \/ \E r \in ReqIds : FindExistingJob(r)
  \/ \E r \in ReqIds : IsFailed(r)
  \/ \E r \in ReqIds : CreateQuestion(r)
  \/ \E r \in ReqIds : CreateJob(r)
  \/ \E r \in ReqIds : CreateJobMetadata(r)
  \/ \E r \in ReqIds : CachePromptHash(r)
  \/ Process
  \/ \E h \in PromptHashes : ExpirePromptHash(h)
  \/ \E h \in SqlHashes : ExpireSqlHash(h)

Spec == Init /\ [][Next]_vars

\* one question asked and processed (with a single request nothing is ever
\* found in the prompt cache or deduplicated) while clients subscribe to
\* updates of it or of an unknown question
NextRelay ==
  \/ Schedule(1)
  \/ CreateQuestion(1)
  \/ CreateJob(1)
  \/ CreateJobMetadata(1)
  \/ CachePromptHash(1)
  \/ Pick
  \/ Plan
  \/ GetSqlHashWithResult
  \/ UpdateQuestion
  \/ ExecuteQuery
  \/ CacheSqlHashWithResult
  \/ Completed
  \/ Failed
  \/ \E f \in finals : CompleteJobWithResult(f)
  \/ \E f \in finals : UpdateJobMetadata(f)
  \/ \E s \in SubIds : Subscribe(s)
  \/ \E s \in SubIds : SubscribeToQuestionUpdates(s)
  \/ \E s \in SubIds : Disconnect(s)
  \/ \E key \in CustomIds : TimerFires(key)

SpecRelay == Init /\ [][NextRelay]_vars

\* the steps of the queue processor on a job: Bull runs the processor on the
\* oldest waiting job, and each awaited call of the handler returns or throws
HandlerStep ==
  \/ Pick
  \/ Plan
  \/ GetSqlHashWithResult
  \/ UpdateQuestion
  \/ ExecuteQuery
  \/ CacheSqlHashWithResult
  \/ Completed
  \/ Failed

\* the same, with the processor never starved
SpecRelayFair == SpecRelay /\ WF_vars(HandlerStep)

\* JobService used directly: one question asked, and createJob calls for the
\* question's key or another one
NextJobService ==
  \/ Schedule(1)
  \/ CreateQuestion(1)
  \/ CreateJob(1)
  \/ CreateJobMetadata(1)
  \/ CachePromptHash(1)
  \/ Process
  \/ \E c \in CallIds : CallCreateJob(c)
  \/ \E c \in CallIds : CallFindExistingJob(c)
  \/ \E c \in CallIds : CallAdd(c)

SpecJobService == Init /\ [][NextJobService]_vars

\* one question asked and processed while PostgreSQL or Redis may be
\* unavailable at any awaited call
NextOutage ==
  \/ Schedule(1)
  \/ CreateQuestion(1)
  \/ CreateJob(1)
  \/ CreateJobMetadata(1)
  \/ CachePromptHash(1)
  \/ Pick
  \/ Plan
  \/ GetSqlHashWithResult
  \/ UpdateQuestion
  \/ ExecuteQuery
  \/ CacheSqlHashWithResult
  \/ Completed
  \/ Failed
  \/ \E f \in finals : CompleteJobWithResult(f)
  \/ \E f \in finals : UpdateJobMetadata(f)
  \/ ScheduleStoreFailure(1)
  \/ HandlerStoreFailure
  \/ \E f \in finals : ListenerStoreFailure(f)

SpecOutage == Init /\ [][NextOutage]_vars

\* the steps of the queue processor on any job, the handler's branch after a
\* SQL cache hit included
ProcessorStep ==
  \/ Pick
  \/ Plan
  \/ GetSqlHashWithResult
  \/ DeleteQuestion
  \/ RepointPromptHash
  \/ UpdateQuestion
  \/ ExecuteQuery
  \/ CacheSqlHashWithResult
  \/ Completed
  \/ Failed

\* POST /questions requests and the queue, with the processor never starved
\* and every call it awaits returning or throwing
SpecFair == Spec /\ WF_vars(ProcessorStep)

\* the awaited steps of scheduleQuestionJob calls in flight
RequestStep ==
  \/ \E r \in ReqIds : FindExistingJob(r)
  \/ \E r \in ReqIds : IsFailed(r)
  \/ \E r \in ReqIds : CreateQuestion(r)
  \/ \E r \in ReqIds : CreateJob(r)
  \/ \E r \in ReqIds : CreateJobMetadata(r)
  \/ \E r \in ReqIds : CachePromptHash(r)

\* the store writes started by the completion and failure listeners
ListenerStep ==
  \/ \E f \in finals : CompleteJobWithResult(f)
  \/ \E f \in finals : UpdateJobMetadata(f)

\* POST /questions requests and the queue, where every awaited call of a
\* request, of the handler and of a listener returns or throws
SpecAllFair ==
  Spec /\ WF_vars(ProcessorStep) /\ WF_vars(RequestStep) /\ WF_vars(ListenerStep)

\* scheduleQuestionJob({userQuestion, questionId}): a caller may pass the id of
\* a question that exists
ScheduleWithQuestionId(r) == scheduleQuestionJob(r, {0} \cup DOMAIN questions)

\* the same as Next, with callers that may pass a questionId
NextResubmit ==
  \/ \E r \in ReqIds : ScheduleWithQuestionId(r)
  \/ \E r \in ReqIds : FindExistingJob(r)
  \/ \E r \in ReqIds : IsFailed(r)
  \/ \E r \in ReqIds : CreateQuestion(r)
  \/ \E r \in ReqIds : CreateJob(r)
  \/ \E r \in ReqIds : CreateJobMetadata(r)
  \/ \E r \in ReqIds : CachePromptHash(r)
  \/ Process
  \/ \E h \in PromptHashes : ExpirePromptHash(h)
  \/ \E h \in SqlHashes : ExpireSqlHash(h)

SpecResubmit == Init /\ [][NextResubmit]_vars

\* the planner alone: a structured plan arrives, and is validated and compiled
InitPlanner ==
  /\ InitServices
  /\ planner \in { [IdlePlanner EXCEPT !.root = root] :
                  root \in RootPlans(MaxDepth, MaxCtes) }

NextPlanner ==
  \/ ValidatePlan
  \/ BuildQuery

SpecPlanner == InitPlanner /\ [][NextPlanner]_vars

----------------------------------------------------------------------------
(* Properties *)

JobIds == 1..Len(jobs)

\* the prompt fingerprint of the request a job was created for
PromptHashOf(id) == calculatePromptHash(jobs[id].data.params.userQuestion)

\* the executor calls made by the handlers of the jobs in S
ExecutionsBy(S) == { k \in 1..Len(executions) : executions[k].job \in S }

\* two jobs handled one after the other, created for different prompt
\* fingerprints, whose plans compiled to the same SQL, the first completed
\* and no cache entry expired
SameSqlPair(j1, j2) ==
  /\ j1 \in DOMAIN trace /\ j2 \in DOMAIN trace
  /\ j1 < j2
  /\ PromptHashOf(j1) # PromptHashOf(j2)
  /\ trace[j1].sql # Null
  /\ trace[j1].sql = trace[j2].sql
  /\ jobs[j1].state = "completed"
  /\ expiries = 0

\* C1: for two requests with distinct prompt fingerprints whose plans compile
\* to the same SQL, handled one after the other with the first job completed
\* and no cache entry expired, the executor is invoked exactly once by the two
\* handlers together (not at all when the first job itself reused a cached
\* result): the second handler found the SQL cache entry, made no executor
\* call and returned the cached result, which is the first job's result.
C1_SecondJobReusesCachedResult ==
  \A j1, j2 \in JobIds :
    SameSqlPair(j1, j2) =>
      /\ Cardinality(ExecutionsBy({j1, j2})) =
           (IF HasCachedResult(trace[j1].sqlInfo) THEN 0 ELSE 1)
      /\ ExecutionsBy({j2}) = {}
      /\ HasCachedResult(trace[j2].sqlInfo)
      /\ jobs[j2].state = "completed"
      /\ jobs[j2].returnvalue = [result |-> trace[j2].sqlInfo.result,
                                 chartConfig |-> trace[j2].sqlInfo.chartConfig]
      /\ jobs[j2].returnvalue = jobs[j1].returnvalue

C1_Witness ==
  \E j1, j2 \in JobIds :
    /\ SameSqlPair(j1, j2)
    /\ Len(executions) = 1
    /\ jobs[j2].state = "completed"

\* two requests with the same normalized prompt that both found nothing in
\* the prompt cache and each created a question and a job; with no cache
\* entry expired they ran scheduleQuestionJob concurrently
RacingDuplicates(r1, r2) ==
  /\ r1 # r2
  /\ reqs[r1].missed /\ reqs[r2].missed
  /\ reqs[r1].job # 0 /\ reqs[r2].job # 0
  /\ calculatePromptHash(reqs[r1].userQuestion) =
       calculatePromptHash(reqs[r2].userQuestion)
  /\ expiries = 0

\* the executor calls for the SQL text made by the handlers of the jobs in S
ExecutionsOf(sql, S) == { k \in ExecutionsBy(S) : executions[k].sql = sql }

\* C2 as stated: when two requests with the same normalized prompt run
\* scheduleQuestionJob concurrently and both miss the prompt cache, the
\* executor is invoked at most once for the SQL their jobs compile to: the
\* job handled second, once past its cache lookup, has hit the SQL cache.
C2_ExecutorInvokedAtMostOnce ==
  \A r1, r2 \in ReqIds :
    RacingDuplicates(r1, r2) =>
      LET j1 == reqs[r1].job
          j2 == reqs[r2].job
      IN /\ \A sql \in Sqls : Cardinality(ExecutionsOf(sql, {j1, j2})) <= 1
         /\ ( /\ j1 < j2
              /\ j1 \in DOMAIN trace /\ j2 \in DOMAIN trace
              /\ trace[j1].sql # Null /\ trace[j1].sql = trace[j2].sql )
            => HasCachedResult(trace[j2].sqlInfo)

\* C2 amended: under the same conditions the executor returns a result at
\* most once for the SQL their jobs compile to, and when the job handled first
\* completed, the job handled second hit the SQL cache and made no executor
\* call. (After a failed executor call of the first job the second job calls
\* the executor again.)
C2_ExecutorSucceedsAtMostOnce ==
  \A r1, r2 \in ReqIds :
    RacingDuplicates(r1, r2) =>
      LET j1 == reqs[r1].job
          j2 == reqs[r2].job
      IN /\ \A sql \in Sqls :
              Cardinality({ k \in ExecutionsOf(sql, {j1, j2}) : executions[k].ok }) <= 1
         /\ ( /\ j1 < j2
              /\ j1 \in DOMAIN trace /\ j2 \in DOMAIN trace
              /\ trace[j1].sql # Null /\ trace[j1].sql = trace[j2].sql
              /\ jobs[j1].state = "completed" )
            => /\ HasCachedResult(trace[j2].sqlInfo)
               /\ ExecutionsBy({j2}) = {}
               /\ jobs[j2].state = "completed"

C2_Witness ==
  \E r1, r2 \in ReqIds :
    /\ RacingDuplicates(r1, r2)
    /\ reqs[r1].job < reqs[r2].job
    /\ reqs[r2].job \in DOMAIN trace
    /\ trace[reqs[r1].job].sql = trace[reqs[r2].job].sql
    /\ HasCachedResult(trace[reqs[r2].job].sqlInfo)
    /\ Len(executions) = 1

\* C3: when a handler that found an SQL cache entry for its compiled SQL
\* returns, the executor has not been called for its job, the question
\* provisioned for the job is deleted, the prompt cache maps the job's prompt
\* fingerprint to the jobId and questionId of the SQL cache entry, and the
\* return value is the entry's result and chart configuration.
C3_CacheHitReturn ==
  [][ (worker.pc # "returned" /\ worker'.pc = "returned"
         /\ HasCachedResult(worker'.sqlInfo))
      => /\ \A k \in 1..Len(executions') : executions'[k].job # worker'.job.id
         /\ worker'.job.data.params.questionId \notin DOMAIN questions'
         /\ PromptHashOf(worker'.job.id) \in DOMAIN promptCache'
         /\ promptCache'[PromptHashOf(worker'.job.id)] =
              [jobId |-> worker'.sqlInfo.jobId,
               questionId |-> worker'.sqlInfo.questionId]
         /\ worker'.returnvalue = [result |-> worker'.sqlInfo.result,
                                   chartConfig |-> worker'.sqlInfo.chartConfig]
    ]_vars

C3_Witness ==
  /\ worker.pc = "returned"
  /\ HasCachedResult(worker.sqlInfo)
  /\ worker.job.data.deduplicated

\* C4 as stated: while the prompt cache maps a prompt fingerprint to a job
\* that exists and is not failed, a scheduleQuestionJob call for the prompt
\* returns that job and creates no question or job: a call that found the
\* mapping goes on to create a question only when the mapped job is failed.
C4_ScheduleIdempotent ==
  \A r \in ReqIds :
    (reqs[r].promptInfo # None /\ reqs[r].pc = "createQuestion")
      => jobs[reqs[r].promptInfo.jobId].state = "failed"

\* C5 as stated: createJob with the existing-job check enabled returns an
\* existing job only when that job is not failed (a failed job makes it
\* enqueue a new one).
C5_CheckedCreateSkipsFailedJob ==
  \A c \in CallIds :
    ( /\ calls[c].pc = "returned"
      /\ ~calls[c].skipExistingCheck
      /\ calls[c].existing # Null )
    => calls[c].existing # "failed"

\* C6 as stated: two jobs created for requests with the same prompt
\* fingerprint carry the same job id.
C6_SamePromptSameJobId ==
  \A i, j \in JobIds :
    PromptHashOf(i) = PromptHashOf(j) => jobs[i].data.customId = jobs[j].data.customId

\* C6 amended: a job's id is a pure function of the job type and the id of
\* the question the job was created for (not of the prompt fingerprint): it
\* is `question-processing:<questionId>`, so two jobs carry the same id
\* exactly when they were created for the same question, and the two jobs of
\* racing requests with the same prompt, each with a question of its own,
\* carry different ids.
C6_JobIdFromQuestionId ==
  \A i, j \in JobIds :
    /\ jobs[i].data.customId = <<QUESTION_JOB_TYPE, ":", jobs[i].data.params.questionId>>
    /\ (jobs[i].data.customId = jobs[j].data.customId)
         <=> (jobs[i].data.params.questionId = jobs[j].data.params.questionId)

C6_Witness ==
  \E i, j \in JobIds :
    /\ i # j
    /\ PromptHashOf(i) = PromptHashOf(j)
    /\ jobs[i].data.customId # jobs[j].data.customId
    /\ reqs[1].missed /\ reqs[2].missed /\ expiries = 0

StatusRank(status) ==
  CASE status = "pending" -> 0
    [] status = "processing" -> 1
    [] OTHER -> 2

\* C7: the status getJobStatus derives for a job only moves forward through
\* pending, processing, completed or failed: it never regresses, and once it
\* is completed or failed it never changes again.
C7_StatusMovesForward ==
  [][ \A id \in JobIds :
        LET before == getJobStatus(jobs[id])
            after == getJobStatus(jobs'[id])
        IN /\ before \in {"pending", "processing", "completed", "failed"}
           /\ StatusRank(before) <= StatusRank(after)
           /\ StatusRank(before) = 2 => after = before
    ]_vars

C7_Witness ==
  \E i, j \in JobIds :
    /\ getJobStatus(jobs[i]) = "failed"
    /\ getJobStatus(jobs[j]) = "completed"

\* C8 as stated: every failure reason a client or the store gets to see (an
\* event written to a subscriber, at subscription or on the job's end, and
\* the job metadata row) is the sanitized reason of the error the job failed
\* with; a failed event has a non-empty reason and no result.
C8_FailureReasonsSanitized ==
  /\ \A s \in SubIds : \A k \in 1..Len(sinks[s].written) :
       LET event == sinks[s].written[k]
       IN event.status = "failed" =>
            /\ Truthy(event.error)
            /\ event.result = None
            /\ \E id \in DOMAIN trace :
                 /\ jobs[id].data.customId = event.jobId
                 /\ trace[id].error # None
                 /\ event.error = toSafeFailedReason(trace[id].error)
  /\ \A b \in DOMAIN jobMetadata :
       jobMetadata[b].status = "failed" =>
         /\ b \in DOMAIN trace
         /\ trace[b].error # None
         /\ jobMetadata[b].failedReason = toSafeFailedReason(trace[b].error)

\* C9 as stated: when the planner or the executor throws an error with
\* message m, then once the scheduling call and the job-failed listener are
\* done there is exactly one job metadata row for the question, with status
\* failed and a failedReason containing m.
C9_FailedReasonContainsMessage ==
  \A id \in DOMAIN trace :
    ( /\ trace[id].error \in PlannerErrors \cup ExecutorErrors
      /\ \A f \in finals : f.bullJobId # id
      /\ \E r \in ReqIds : reqs[r].job = id /\ reqs[r].questionId = r
                               /\ reqs[r].pc = "returned" )
    => LET rows == { b \in DOMAIN jobMetadata :
                       jobMetadata[b].questionId = jobs[id].data.params.questionId }
       IN /\ Cardinality(rows) = 1
          /\ \A b \in rows :
               /\ jobMetadata[b].status = "failed"
               /\ jobMetadata[b].failedReason = trace[id].error.message

\* what updateQuestion persisted for the job's question is still there
PlanPersisted(questionId, sql) ==
  /\ questionId \in DOMAIN questions
  /\ questions[questionId].bigQuerySql = sql
  /\ questions[questionId].structuredQueryPlanSchema = <<"plan", sql>>
  /\ questions[questionId].title = PLANNED_TITLE

\* C10: when the executor throws, the SQL, plan and title already persisted
\* on the question stay as they are (from the throw on, also after the job
\* has ended), the question has no result row, the handler wrote no SQL cache
\* entry, and the job ends failed.
C10_ExecutorFailureKeepsPlan ==
  /\ (worker.pc = "threw" /\ worker.error \in ExecutorErrors) =>
       /\ PlanPersisted(worker.job.data.params.questionId, worker.sql)
       /\ worker.job.data.params.questionId \notin DOMAIN results
       /\ \A h \in DOMAIN sqlCache : sqlCache[h].jobId # worker.job.id
  /\ \A id \in DOMAIN trace :
       trace[id].error \in ExecutorErrors =>
         /\ PlanPersisted(jobs[id].data.params.questionId, trace[id].sql)
         /\ jobs[id].data.params.questionId \notin DOMAIN results
         /\ \A h \in DOMAIN sqlCache : sqlCache[h].jobId # id
         /\ jobs[id].state = "failed"
         /\ getJobStatus(jobs[id]) = "failed"
         /\ jobs[id].returnvalue = None

C10_Witness ==
  \E id \in DOMAIN trace :
    /\ trace[id].error \in ExecutorErrors
    /\ jobs[id].state = "failed"
    /\ \A f \in finals : f.bullJobId # id
    /\ id \in DOMAIN jobMetadata /\ jobMetadata[id].status = "failed"

\* the question still is as createQuestion made it
Untouched(questionId) ==
  /\ questionId \in DOMAIN questions
  /\ questions[questionId].title = PLACEHOLDER_TITLE
  /\ questions[questionId].bigQuerySql = ""
  /\ questions[questionId].structuredQueryPlanSchema = <<>>

\* C11: when the planning stage of a job throws (planner error, abstention,
\* low fidelity or validator rejection), the executor is never invoked for
\* the job and the job's question keeps the placeholder title and the empty
\* SQL it was created with, from the throw on.
C11_PlannerFailureTouchesNothing ==
  /\ (worker.pc = "threw" /\ worker.error \in PlannerErrors) =>
       /\ ExecutionsBy({worker.job.id}) = {}
       /\ Untouched(worker.job.data.params.questionId)
  /\ \A id \in DOMAIN trace :
       trace[id].error \in PlannerErrors =>
         /\ ExecutionsBy({id}) = {}
         /\ Untouched(jobs[id].data.params.questionId)
         /\ jobs[id].state = "failed"

C11_Witness ==
  \E id \in DOMAIN trace :
    /\ trace[id].error = UserFacingError(AbstainMessage)
    /\ \E other \in DOMAIN trace : trace[other].error = Error(LlmRawMessage)
    /\ Len(executions) = 0

\* the planner's rejection of a plan (abstention, low fidelity, validator)
Rejection == UserFacingError(AbstainMessage)

\* C12 as stated: validation and abstention are decided before any job is
\* queued, so no job of the queue ever has its plan rejected and no rejection
\* is ever recorded as a job failure.
C12_RejectedBeforeQueued ==
  /\ ~(worker.pc = "threw" /\ worker.error = Rejection)
  /\ \A id \in DOMAIN trace : trace[id].error # Rejection
  /\ \A b \in DOMAIN jobMetadata : jobMetadata[b].failedReason # AbstainMessage

\* C12 amended: validation and abstention are decided inside the job's
\* handler, after the job was queued and taken by the processor: the job
\* whose plan is rejected is in the queue, it ends failed with the rejection
\* message as its reason, the executor is never invoked for it, and the
\* failure recorded in its metadata row carries the rejection message.
C12_RejectedInsideJob ==
  /\ (worker.pc = "threw" /\ worker.error = Rejection) =>
       /\ worker.job.id \in JobIds
       /\ jobs[worker.job.id].state = "active"
       /\ ExecutionsBy({worker.job.id}) = {}
  /\ \A id \in DOMAIN trace :
       trace[id].error = Rejection =>
         /\ jobs[id].state = "failed"
         /\ jobs[id].failedReason = AbstainMessage
         /\ ExecutionsBy({id}) = {}
         /\ \/ \E f \in finals : f.bullJobId = id /\ f.failedReason = AbstainMessage
            \/ id \notin DOMAIN jobMetadata
            \/ jobMetadata[id].status = "pending"
            \/ /\ jobMetadata[id].status = "failed"
               /\ jobMetadata[id].failedReason = AbstainMessage

C12_Witness ==
  \E id \in DOMAIN trace :
    /\ trace[id].error = Rejection
    /\ id \in DOMAIN jobMetadata
    /\ jobMetadata[id].status = "failed"
    /\ jobMetadata[id].failedReason = AbstainMessage

\* C13: a store or cache failure is never swallowed: one met by
\* scheduleQuestionJob fails the request, one met while a job is handled or
\* finalised ends the job failed, and no job stands completed (with its
\* completed event sent) while the write of its completion metadata and
\* result failed.
C13_StoreFailureNeverSwallowed ==
  [][ /\ ScheduleStoreFailure(1) => reqs'[1].pc = "threw"
      /\ HandlerStoreFailure => worker'.pc = "threw"
      /\ \A f \in finals :
           ListenerStoreFailure(f) => jobs'[f.bullJobId].state = "failed"
      /\ \A f \in finals :
           (/\ f.kind = "completeJobWithResult"
            /\ finals' = finals \ {f}
            /\ jobs'[f.bullJobId].state = "completed")
           => /\ f.bullJobId \in DOMAIN jobMetadata'
              /\ jobMetadata'[f.bullJobId].status = "completed"
              /\ jobMetadata'[f.bullJobId].questionId \in DOMAIN results' ]_vars

\* the metadata row of job id says completed and its question has the result
CompletionCommitted(id, returnvalue) ==
  /\ id \in DOMAIN jobMetadata'
  /\ jobMetadata'[id].status = "completed"
  /\ jobMetadata'[id].questionId \in DOMAIN results'
  /\ results'[jobMetadata'[id].questionId] =
       [rows |-> returnvalue.result.rows, chartConfig |-> returnvalue.chartConfig]

\* C14: completeJobWithResult commits the metadata update to completed and
\* the result upsert together or commits neither, and in every state reached
\* a metadata row with status completed belongs to a question that has a
\* result row.
C14_CompletionAtomic ==
  [][ /\ \A f \in finals :
           CompleteJobWithResult(f) =>
             \/ CompletionCommitted(f.bullJobId, f.returnvalue)
             \/ UNCHANGED <<jobMetadata, results>>
      /\ \A id \in DOMAIN jobMetadata' :
           jobMetadata'[id].status = "completed"
             => jobMetadata'[id].questionId \in DOMAIN results' ]_vars

\* a completion was committed: metadata completed and the result stored
C14_Witness ==
  \E id \in DOMAIN jobMetadata :
    /\ jobMetadata[id].status = "completed"
    /\ jobMetadata[id].questionId \in DOMAIN results
    /\ jobs[id].state = "completed"

Terminal == {"completed", "failed"}

\* the number of close timers pending for a key
PendingTimers(tmrs, key) == IF key \in DOMAIN tmrs THEN tmrs[key] ELSE 0

\* the first state written to a sink was a terminal one
TerminalInitialState(s) ==
  /\ sinks[s].written # <<>>
  /\ sinks[s].written[1].status \in Terminal

OpenChannels(key) ==
  { s \in SubIds :
      /\ subs[s].pc \in {"open", "threw"}
      /\ generateCustomId(QUESTION_JOB_TYPE, subs[s].questionId) = key
      /\ ~sinks[s].ended }

\* C16: sendUpdate for a job key with no open channel (never registered, or
\* closed by the timer, by a write error or by the subscriber disconnecting)
\* is a no-op: nothing is written to any sink and the registry is unchanged.
C16_SendUpdateAfterCloseIsNoOp ==
  [][ (Completed \/ Failed) =>
        (OpenChannels(worker.job.data.customId) = {}
           => /\ sinks' = sinks
              /\ activeConnections' = activeConnections) ]_vars

\* in this step sendUpdate found a sink registered under the key and wrote
\* nothing to it: the write threw
WriteThrew(key) ==
  /\ key \in DOMAIN activeConnections
  /\ sinks'[activeConnections[key]].written = sinks[activeConnections[key]].written

\* C17: when the write to the registered sink throws during sendUpdate, the
\* error does not reach the caller (the listener ends normally and the job
\* keeps its outcome), the sink is closed, and no sink is registered for the
\* key when sendUpdate has returned.
C17_WriteErrorClosesAndDeregisters ==
  [][ (Completed \/ Failed) =>
        LET key == worker.job.data.customId
        IN WriteThrew(key)
             => /\ worker' = IdleWorker
                /\ jobs'[worker.job.id].state \in Terminal
                /\ sinks'[activeConnections[key]].ended
                /\ key \notin DOMAIN activeConnections' ]_vars

\* the keys closeConnection is called with: custom job ids (the timer, the
\* write error) and bare question ids (the controller's close handler)
CloseKeys == CustomIds \cup { <<q>> : q \in ReqIds }

\* C18: closeConnection is total and idempotent: from any registry state and
\* whatever end() does it returns; after it no sink is registered for the key;
\* a second call changes nothing; on an unknown key the registry and the
\* sinks are left as they were.
C18_CloseConnectionIdempotent ==
  \A key \in CloseKeys : \A endThrows \in BOOLEAN, endThrowsAgain \in BOOLEAN :
    LET once == closeConnection(key, activeConnections, sinks, endThrows)
        twice == closeConnection(key, once.conns, once.sinks, endThrowsAgain)
    IN /\ key \notin DOMAIN once.conns
       /\ twice = once
       /\ key \notin DOMAIN activeConnections
            => once = [conns |-> activeConnections, sinks |-> sinks]

\* the replies set up for a job key that are live: the client is connected
\* and the reply has not been ended
LiveChannels(key) ==
  { s \in SubIds :
      /\ subs[s].pc = "open"
      /\ generateCustomId(QUESTION_JOB_TYPE, subs[s].questionId) = key
      /\ ~sinks[s].ended }

\* C19: at most one live push channel exists per job key: a setupConnection
\* for a key that already has a registered sink closes that sink, so only
\* the new one remains live.
C19_OneLiveChannelPerKey ==
  \A key \in CustomIds :
    /\ Cardinality(LiveChannels(key)) <= 1
    /\ \A s \in LiveChannels(key) :
         key \in DOMAIN activeConnections /\ activeConnections[key] = s

\* the stored job of a question
StoredJobs(q) ==
  { jobs[i] : i \in { k \in 1..Len(jobs) :
      jobs[k].data.customId = generateCustomId(QUESTION_JOB_TYPE, q) } }

\* in this step the subscription request of s is answered: the stream is
\* opened with an initial event, or the answer is 404
Answered(s) ==
  /\ subs[s].pc \notin {"open", "notFound"}
  /\ subs'[s].pc \in {"open", "notFound"}

\* C20: a subscriber's disconnect changes nothing but the relay's registry:
\* the job, the question, the metadata and the result are as before and the
\* handler goes on; the job still reaches a terminal state; and a
\* subscription requested after the disconnect for the same job is opened
\* with the job's current state as its initial event.
C20_DisconnectLeavesJobRunning ==
  /\ [][ /\ \A s \in SubIds :
              Disconnect(s) =>
                UNCHANGED <<reqs, questions, jobMetadata, results, promptCache,
                            sqlCache, jobs, worker, finals, executions>>
         /\ \A s \in SubIds :
              (Answered(s) /\ subs'[s].afterClose) =>
                /\ subs'[s].pc = "open"
                /\ sinks'[s].written # <<>>
                /\ \E job \in StoredJobs(subs'[s].questionId) :
                     sinks'[s].written[Len(sinks'[s].written)] = buildJobState(job) ]_vars
  /\ \A s \in SubIds :
       (subs[s].pc = "closed") ~>
         (\A job \in StoredJobs(subs[s].questionId) : job.state \in Terminal)

\* the request was answered 202 with this question and job, the job is in
\* its final state and its listener's store write is over
Settled(r) ==
  /\ reqs[r].pc = "returned"
  /\ jobs[reqs[r].job].state \in Terminal
  /\ \A f \in finals : f.bullJobId # reqs[r].job

\* C21: once a job is terminal and its listeners have run, a poll of the
\* question id that was returned with it is answered (the id stays
\* resolvable); for a completed job the answer is done with the stored
\* result, for a failed job it is neither in progress nor a done with a
\* result.
C21_PollObservesTerminalOutcome ==
  \A r \in ReqIds :
    Settled(r) =>
      \A reply \in getQuestion(reqs[r].questionId) :
        /\ reply.code = 200
        /\ jobs[reqs[r].job].state = "completed"
             => /\ reply.status = "done"
                /\ reply.result # None
                /\ reply.result.rows = jobs[reqs[r].job].returnvalue.result.rows
        /\ jobs[reqs[r].job].state = "failed"
             => /\ reply.status # "in_progress"
                /\ reply.result = None

\* C22: nothing times a job out: while the executor call of a job has not
\* returned, every step leaves the handler waiting on that call and the
\* job active with the derived status processing; only the return (or throw)
\* of the executor call moves the job on.
C22_NoTimeout ==
  [][ (worker.pc = "executeQuery" /\ ~ExecuteQuery) =>
        /\ worker' = worker
        /\ jobs'[worker.job.id].state = "active"
        /\ getJobStatus(jobs'[worker.job.id]) = "processing" ]_vars

\* the executor call of one job is pending while another job waits behind it
\* and the request of that other job has been answered
C22_Witness ==
  /\ worker.pc = "executeQuery"
  /\ getJobStatus(jobs[worker.job.id]) = "processing"
  /\ \E r \in ReqIds :
       /\ reqs[r].pc = "returned"
       /\ reqs[r].job # worker.job.id
       /\ jobs[reqs[r].job].state = "waiting"

\* the plan held by the planner was compiled to SQL
Built == IF planner.built = None THEN FALSE ELSE planner.built.ok

\* the compiler threw
BuildThrew == IF planner.built = None THEN FALSE ELSE ~planner.built.ok

PositionOf(sql, token) == CHOOSE p \in 1..Len(sql) : sql[p] = token

\* where the query of the i-th CTE ends in the SQL: before its closing
\* parenthesis, which the next CTE's `, name` or the line break follows
CteEnd(root, sql, i) ==
  IF i < Len(root.ctes)
  THEN PositionOf(sql, root.ctes[i + 1].name) - 3
  ELSE PositionOf(sql, "\n") - 2

\* the number after LIMIT at the end of a query that ends at position end,
\* if the query ends with a LIMIT
EmittedLimit(sql, end) ==
  IF end >= 2 /\ sql[end - 1] = "LIMIT" THEN <<sql[end]>> ELSE <<>>

\* the limit the clamp rule gives for a requested limit
ClampedLimit(limit) ==
  IF limit.present /\ limit.value > MAX_LIMIT THEN MAX_LIMIT
  ELSE IF ~limit.present \/ limit.value = 0 THEN DEFAULT_LIMIT
  ELSE limit.value

LeafFault(item) ==
  IF item.op \notin allowedOperators
  THEN << <<"Operator not allowed: ", item.op>> >>
  ELSE IF item.op = "BETWEEN" /\ (item.value.kind # "array" \/ Len(item.value.items) # 2)
  THEN << <<"BETWEEN operator requires an array value of length 2">> >>
  ELSE IF item.op = "IN" /\ item.value.kind # "array"
  THEN << <<"IN operator requires array value">> >>
  ELSE <<>>

\* the errors of the leaves of a filter tree, depth first and left to right
RECURSIVE TreeFaults(_)
TreeFaults(item) ==
  IF item.node = "group"
  THEN Join([i \in 1..Len(item.filters) |-> TreeFaults(item.filters[i])], <<>>)
  ELSE LeafFault(item)

\* the errors of one query plan: its columns first, then its filter trees
QueryFaults(plan) ==
  (IF Len(plan.columns) = 0 \/ \E i \in 1..Len(plan.columns) : plan.columns[i] = "*"
   THEN << <<"Invalid columns">> >> ELSE <<>>)
  \o (IF plan.filters.present
      THEN Join([i \in 1..Len(plan.filters.value) |-> TreeFaults(plan.filters.value[i])],
                <<>>)
      ELSE <<>>)

\* the errors of a root plan: its CTEs in order, then its main query
PlanFaults(root) ==
  Join([i \in 1..Len(root.ctes) |-> QueryFaults(root.ctes[i].query)], <<>>)
  \o QueryFaults(root.main_query)

\* the operators outside the allow-list that the leaves of a root plan use
DisallowedOperators(root) ==
  { PlanFaults(root)[k][2] :
      k \in { j \in 1..Len(PlanFaults(root)) :
                PlanFaults(root)[j][1] = "Operator not allowed: " } }

\* C24 as stated: buildQuery throws and returns no SQL whenever the main
\* query or a CTE has no columns or a '*' column, or a filter leaf at any
\* depth uses an operator outside the allow-list, a BETWEEN without an array
\* of two, or an IN without an array; and when a leaf uses an operator
\* outside the allow-list the error names the operator.
C24_InvalidPlanThrowsNamingOperator ==
  (planner.built # None /\ PlanFaults(planner.root) # <<>>) =>
    /\ BuildThrew
    /\ planner.built.sql = <<>>
    /\ DisallowedOperators(planner.root) # {} =>
         \E op \in DisallowedOperators(planner.root) :
           planner.built.error = <<"Operator not allowed: ", op>>

\* C24 amended: buildQuery throws and returns no SQL whenever the plan has
\* one of these faults, and the error is that of the first fault in the order
\* of compilation (CTEs in order, then the main query; in a query the columns,
\* then the filter trees depth first); it names the operator when that first
\* fault is an operator outside the allow-list.
C24_InvalidPlanThrowsFirstFault ==
  (planner.built # None /\ PlanFaults(planner.root) # <<>>) =>
    /\ BuildThrew
    /\ planner.built.sql = <<>>
    /\ planner.built.error = Head(PlanFaults(planner.root))

\* compiled and thrown: an operator outside the allow-list two groups deep in
\* the main query, named by the error
C24_Witness ==
  /\ BuildThrew
  /\ planner.built.error = <<"Operator not allowed: ", "LIKE">>
  /\ planner.root.main_query.filters.present
  /\ planner.root.main_query.filters.value
       = <<Group("AND", <<TypeIsPush, Group("OR", <<IdLike>>)>>)>>

\* the SQL of the main query within the compiled SQL
MainSql(root, sql) ==
  IF Len(root.ctes) = 0 THEN sql
  ELSE SubSeq(sql, PositionOf(sql, "\n") + 1, Len(sql))

\* the SQL of the query of the i-th CTE within the compiled SQL
CteSql(root, sql, i) ==
  SubSeq(sql, PositionOf(sql, root.ctes[i].name) + 3, CteEnd(root, sql, i))

\* the condition of one query: what follows WHERE, up to the grouping, the
\* order or the limit
WhereOf(query) ==
  LET from == PositionOf(query, "WHERE") + 1
      ends == { p \in from..Len(query) : query[p] \in {"GROUP BY", "ORDER BY", "LIMIT"} }
      to == IF ends = {} THEN Len(query)
            ELSE (CHOOSE p \in ends : \A q \in ends : p <= q) - 1
  IN SubSeq(query, from, to)

\* a filter tree as it is to be rendered: a group is an opening parenthesis,
\* its children joined by its logic keyword, and a closing parenthesis
RECURSIVE RenderTree(_)
RenderTree(item) ==
  IF item.node = "group"
  THEN <<"(">>
       \o Join([i \in 1..Len(item.filters) |-> RenderTree(item.filters[i])],
               <<item.logic>>)
       \o <<")">>
  ELSE buildClause(item).sql

\* a filter list as it is to be rendered: 1=1 if absent or empty, else its
\* trees in plan order joined by AND
RenderFilters(filters) ==
  IF ~filters.present \/ filters.value = <<>> THEN <<"1=1">>
  ELSE Join([i \in 1..Len(filters.value) |-> RenderTree(filters.value[i])], <<"AND">>)

\* does a filter tree hold a group inside a group
NestedGroup(item) ==
  /\ item.node = "group"
  /\ \E i \in 1..Len(item.filters) : item.filters[i].node = "group"

\* C25: in every compiled query, of the main query and of each CTE, the
\* condition is the filter list with every group at any depth in parentheses
\* and joined by its own logic keyword, the top-level filters joined by AND in
\* plan order, and 1=1 for an absent or empty filter list.
C25_GroupsParenthesized ==
  Built =>
    LET root == planner.root
        sql == planner.built.sql
    IN /\ WhereOf(MainSql(root, sql)) = RenderFilters(root.main_query.filters)
       /\ \A i \in 1..Len(root.ctes) :
            WhereOf(CteSql(root, sql, i)) = RenderFilters(root.ctes[i].query.filters)

\* compiled: a main query whose only filter is a group holding a group of two
\* leaves
C25_Witness ==
  /\ Built
  /\ planner.root.main_query.filters.present
  /\ planner.root.main_query.filters.value
       = <<Group("AND", <<TypeIsPush, Group("OR", <<TypeIsPush, TypeIsPush>>)>>)>>
  /\ NestedGroup(planner.root.main_query.filters.value[1])

\* the plan held by the planner was validated
Validated == planner.validation # None

\* does a filter tree hold, at any depth, a leaf on _TABLE_SUFFIX with =, IN
\* or BETWEEN
RECURSIVE ConstrainsSuffix(_)
ConstrainsSuffix(item) ==
  IF item.node = "group"
  THEN \E i \in 1..Len(item.filters) : ConstrainsSuffix(item.filters[i])
  ELSE item.column = "_TABLE_SUFFIX" /\ item.op \in {"=", "IN", "BETWEEN"}

\* the main query has no filter on _TABLE_SUFFIX with =, IN or BETWEEN
NoSuffixFilter(main) ==
  ~main.filters.present
  \/ \A i \in 1..Len(main.filters.value) : ~ConstrainsSuffix(main.filters.value[i])

\* the reasons of validatePlan that name the _TABLE_SUFFIX column
NamesTableSuffix(reason) ==
  reason \in {"Wildcard day table requires _TABLE_SUFFIX filter"}

\* the plan passes the checks validatePlan makes before it looks at the table
\* pattern: a table, at least one column, no column that trims to '*'
PassesShapeChecks(main) ==
  /\ main.table # <<>>
  /\ Len(main.columns) # 0
  /\ \A i \in 1..Len(main.columns) : TrimColumn(main.columns[i]) # "*"

\* C26 as stated: a plan whose main table matches the wildcard day-table
\* pattern and whose main query has no filter on _TABLE_SUFFIX with =, IN or
\* BETWEEN is rejected, with a reason that names the _TABLE_SUFFIX column.
C26_WildcardRejectedNamingSuffix ==
  ( /\ Validated
    /\ usesWildcardDayTable(planner.root.main_query.table)
    /\ NoSuffixFilter(planner.root.main_query) ) =>
    /\ ~planner.validation.ok
    /\ NamesTableSuffix(planner.validation.reason)

\* C26 amended: a plan whose main table matches the wildcard day-table
\* pattern and whose main query has no top-level filter on _TABLE_SUFFIX with
\* =, IN or BETWEEN is rejected; the reason names the _TABLE_SUFFIX column
\* exactly when the plan passes the earlier checks on table and columns, and
\* is the reason of the first failing earlier check otherwise.
C26_WildcardRejectedSuffixReasonAfterShape ==
  ( /\ Validated
    /\ usesWildcardDayTable(planner.root.main_query.table)
    /\ ~hasSuffixFilter(planner.root.main_query) ) =>
    /\ ~planner.validation.ok
    /\ NamesTableSuffix(planner.validation.reason)
         <=> PassesShapeChecks(planner.root.main_query)
    /\ ~PassesShapeChecks(planner.root.main_query) =>
         planner.validation.reason
           \in {"Missing columns", "Wildcard columns are not allowed"}

\* validated and rejected for the missing suffix filter: a year-prefixed
\* wildcard day table whose only filter on _TABLE_SUFFIX uses >
C26_Witness ==
  /\ Validated
  /\ ~planner.validation.ok
  /\ NamesTableSuffix(planner.validation.reason)
  /\ planner.root.main_query.table = <<"githubarchive.day.", "2", "0", "2", "5", "*">>
  /\ planner.root.main_query.filters = Present(<<SuffixAfter>>)

\* the fingerprint of the trimmed, lower-cased text of a prompt
KeyOf(text) == Sha256(NormalizePrompt(text))

\* the requests that have passed the prompt-cache lookup
Started == { r \in ReqIds : reqs[r].pc # "idle" }

\* C27 as stated: prompts that differ only in letter case or surrounding
\* whitespace get the same fingerprint and are deduplicated to the same job:
\* any two scheduleQuestionJob calls that returned for such prompts returned
\* the same job.
C27_VariantsAlwaysSameJob ==
  \A r1, r2 \in ReqIds :
    ( /\ reqs[r1].pc = "returned"
      /\ reqs[r2].pc = "returned"
      /\ NormalizePrompt(reqs[r1].userQuestion) = NormalizePrompt(reqs[r2].userQuestion) ) =>
      /\ calculatePromptHash(reqs[r1].userQuestion)
           = calculatePromptHash(reqs[r2].userQuestion)
      /\ reqs[r1].job = reqs[r2].job

\* C27 amended: two prompts have the same fingerprint exactly when their
\* trimmed, lower-cased texts are equal; scheduleQuestionJob reads the prompt
\* cache at that fingerprint and nothing else (a questionId passed by the
\* caller plays no part), writes the entry at that fingerprint only, and on
\* the early return gives back the job and question the entry it read maps to
\* without creating or caching anything.
C27_CacheKeyIsNormalizedText ==
  [][ /\ \A r1, r2 \in Started :
           (calculatePromptHash(reqs[r1].userQuestion)
              = calculatePromptHash(reqs[r2].userQuestion))
           <=> (NormalizePrompt(reqs[r1].userQuestion)
                  = NormalizePrompt(reqs[r2].userQuestion))
      /\ \A r \in ReqIds :
           /\ (reqs[r].pc = "idle" /\ reqs'[r].pc # "idle") =>
                LET key == KeyOf(reqs'[r].userQuestion)
                IN /\ reqs'[r].missed = (key \notin DOMAIN promptCache)
                   /\ reqs'[r].pc = "findExistingJob" =>
                        /\ key \in DOMAIN promptCache
                        /\ reqs'[r].promptInfo = promptCache[key]
                   /\ promptCache' = promptCache
           /\ (reqs[r].pc = "cachePromptHash" /\ reqs'[r].pc = "returned") =>
                promptCache' = Put(promptCache, KeyOf(reqs[r].userQuestion),
                                   [jobId |-> reqs[r].job,
                                    questionId |-> reqs[r].questionId])
           /\ (reqs[r].pc = "isFailed" /\ reqs'[r].pc = "returned") =>
                /\ reqs'[r].job = reqs[r].existingJob
                /\ reqs'[r].questionId = reqs[r].promptInfo.questionId
                /\ jobs[reqs'[r].job].state # "failed"
                /\ UNCHANGED <<jobs, questions, jobMetadata, promptCache>> ]_vars

\* two requests whose prompts differ in case and whitespace only were given
\* the same job and question
C27_Witness ==
  /\ reqs[1].pc = "returned"
  /\ reqs[2].pc = "returned"
  /\ reqs[1].userQuestion # reqs[2].userQuestion
  /\ NormalizePrompt(reqs[1].userQuestion) = NormalizePrompt(reqs[2].userQuestion)
  /\ reqs[1].job = reqs[2].job
  /\ reqs[1].questionId = reqs[2].questionId

\* the job with this id was enqueued
Enqueued(id) == id <= Len(jobs)

\* the job with this id is completed or failed
Finished(id) ==
  IF id <= Len(jobs) THEN jobs[id].state \in {"completed", "failed"} ELSE FALSE

\* C28: every job enqueued by scheduleQuestionJob is handled by the processor
\* exactly once (it is taken from the waiting jobs once, never goes back to
\* them, is finished exactly when its one handling has ended, and does not
\* change afterwards) and, with the processor scheduled fairly and every
\* awaited call returning or throwing, eventually is completed or failed.
C28_HandledOnceAndEventuallyTerminal ==
  /\ [][ \A id \in 1..Len(jobs) :
           /\ jobs[id].state # "waiting" => jobs'[id].state # "waiting"
           /\ (jobs'[id].state = "active" /\ jobs[id].state # "active") =>
                /\ jobs[id].state = "waiting"
                /\ worker.pc = "idle"
                /\ worker'.job.id = id
           /\ Finished(id) <=> id \in DOMAIN trace
           /\ Finished(id) => /\ jobs'[id] = jobs[id]
                              /\ trace'[id] = trace[id] ]_vars
  /\ \A id \in 1..MaxRequests : Enqueued(id) ~> Finished(id)

\* two jobs were enqueued and each was handled and is completed or failed
C28_Witness ==
  /\ Len(jobs) = MaxRequests
  /\ \A id \in 1..Len(jobs) : Finished(id) /\ id \in DOMAIN trace
  /\ \E id \in 1..Len(jobs) : jobs[id].state = "failed"
  /\ \E id \in 1..Len(jobs) : jobs[id].state = "completed"

\* in this step the job held by the processor finishes and its terminal
\* event (job:completed or job:failed) is emitted
Emission == worker.pc \in {"returned", "threw"} /\ worker'.pc = "idle"

\* the status of the terminal event emitted in this step
EmittedStatus == IF worker.pc = "returned" THEN "completed" ELSE "failed"

\* the terminal events among those written to a sink
TerminalEvents(written) ==
  { k \in 1..Len(written) : written[k].status \in Terminal }

\* C29 as stated: a job finishes with exactly one terminal event, completed
\* or failed, emitted once when it leaves the active state; that emission
\* sends one update with the terminal state under the job's key, and the sink
\* registered for the key at that moment receives exactly one terminal event.
C29_RegisteredSinkReceivesTerminalEvent ==
  [][ Emission =>
        LET id == worker.job.id
            key == worker.job.data.customId
        IN /\ jobs[id].state = "active"
           /\ jobs'[id].state = EmittedStatus
           /\ key \in DOMAIN activeConnections =>
                LET s == activeConnections[key]
                IN /\ Len(sinks'[s].written) = Len(sinks[s].written) + 1
                   /\ sinks'[s].written[Len(sinks'[s].written)].status = EmittedStatus
                   /\ sinks'[s].written[Len(sinks'[s].written)].jobId = key ]_vars

\* C29 amended: as above, except that the registered sink receives the one
\* terminal event only if the write to it succeeds; when the write throws it
\* receives nothing. No other sink is written to, and nothing is written
\* without a sink registered for the key.
C29_OneTerminalEventUnlessWriteThrows ==
  [][ Emission =>
        LET id == worker.job.id
            key == worker.job.data.customId
        IN /\ jobs[id].state = "active"
           /\ jobs'[id].state = EmittedStatus
           /\ \A s \in SubIds :
                \/ sinks'[s].written = sinks[s].written
                \/ /\ key \in DOMAIN activeConnections
                   /\ activeConnections[key] = s
                   /\ Len(sinks'[s].written) = Len(sinks[s].written) + 1
                   /\ SubSeq(sinks'[s].written, 1, Len(sinks[s].written))
                        = sinks[s].written
                   /\ sinks'[s].written[Len(sinks'[s].written)].status = EmittedStatus
                   /\ sinks'[s].written[Len(sinks'[s].written)].jobId = key
                   /\ Cardinality(TerminalEvents(sinks'[s].written)) = 1 ]_vars

\* a sink that was registered while the job was not finished has received the
\* job's terminal event, once
C29_Witness ==
  \E s \in SubIds :
    /\ Len(sinks[s].written) = 2
    /\ sinks[s].written[1].status \notin Terminal
    /\ sinks[s].written[2].status \in Terminal
    /\ sinks[s].written[2].jobId = generateCustomId(QUESTION_JOB_TYPE, 1)
    /\ jobs[1].state = sinks[s].written[2].status

\* the executor calls that returned a result for SQL with this fingerprint
SuccessfulExecutions(sqlHash) ==
  { k \in 1..Len(executions) :
      executions[k].ok /\ calculateSqlHash(executions[k].sql) = sqlHash }

\* the jobs whose handler threw, or is about to be reported as having thrown
FailedJobs ==
  { id \in 1..Len(jobs) :
      \/ jobs[id].state = "failed"
      \/ worker.pc = "threw" /\ worker.job.id = id }

\* C30: every entry of the SQL-fingerprint cache was written after an
\* executor call on SQL with that fingerprint returned, and holds the result
\* of that call with the jobId and the questionId of the job that made it; no
\* entry carries the jobId of a job that failed.
C30_SqlCacheOnlyAfterSuccessfulExecution ==
  \A sqlHash \in DOMAIN sqlCache :
    /\ \E k \in SuccessfulExecutions(sqlHash) :
         /\ sqlCache[sqlHash].result = [rows |-> k]
         /\ sqlCache[sqlHash].jobId = executions[k].job
         /\ sqlCache[sqlHash].questionId
              = jobs[executions[k].job].data.params.questionId
    /\ sqlCache[sqlHash].jobId \notin FailedJobs

\* one job's executor call returned and its result is cached, and another
\* job's executor call threw
C30_Witness ==
  /\ \E sqlHash \in DOMAIN sqlCache : sqlCache[sqlHash].jobId \in 1..Len(jobs)
  /\ \E k \in 1..Len(executions) :
       /\ ~executions[k].ok
       /\ jobs[executions[k].job].state = "failed"

\* the jobs whose handler returned the cached result of another job
Deduplicated ==
  { id \in DOMAIN trace :
      /\ jobs[id].state = "completed"
      /\ HasCachedResult(trace[id].sqlInfo) }

\* C31: the completion of a job that was short-circuited as deduplicated
\* writes nothing to the relational store: in the step in which it completes
\* no listener write is started and no row changes, and no write of a
\* completion listener is ever pending for such a job, so that the result
\* record of the original question stays as it is.
C31_DeduplicatedCompletionWritesNothing ==
  [][ /\ (worker.pc = "returned" /\ worker.job.data.deduplicated /\ worker'.pc = "idle") =>
           UNCHANGED <<finals, questions, jobMetadata, results>>
      /\ \A f \in finals : f.bullJobId \notin Deduplicated
      /\ \A f \in finals' : f.bullJobId \notin Deduplicated' ]_vars

\* the second job completed from the SQL cache entry of the first, whose
\* result is stored for the first question; no listener write is pending
C31_Witness ==
  /\ 2 \in Deduplicated
  /\ finals = {}
  /\ trace[2].sqlInfo.questionId \in DOMAIN results
  /\ results[trace[2].sqlInfo.questionId].rows = trace[2].sqlInfo.result.rows

\* the job is completed or failed and was not short-circuited as deduplicated
FinishedNotDeduplicated(id) == Finished(id) /\ id \notin Deduplicated

\* the job_metadata row of the job carries the job's state
MetadataFollows(id) ==
  IF id <= Len(jobs) /\ id \in DOMAIN jobMetadata
  THEN jobMetadata[id].status = jobs[id].state
  ELSE FALSE

\* C32 as stated: for every job that is completed or failed and was not
\* deduplicated, the status of its job_metadata row eventually is the job's
\* terminal state and stays so, whatever the interleaving of the request's
\* steps after the enqueue with the handler and the listeners.
C32_MetadataEventuallyTerminal ==
  \A id \in 1..MaxRequests :
    FinishedNotDeduplicated(id) ~> [](MetadataFollows(id))

\* C33 as stated: whenever the prompt-hash cache maps a hash to {jobId,
\* questionId}, the question with that id exists, under every interleaving of
\* scheduleQuestionJob's cachePromptHash with the handler's short-circuit on
\* an SQL-cache hit.
C33_PromptCacheRefersToExistingQuestion ==
  \A h \in DOMAIN promptCache : promptCache[h].questionId \in DOMAIN questions

\* C34 as stated: the handler's short-circuit on an SQL-cache hit never
\* deletes the question the SQL-cache entry refers to, and no question that
\* has a persisted result is ever deleted, whatever scheduleQuestionJob calls
\* (with or without a questionId) and job executions came before.
C34_ShortCircuitDeletesOnlyDuplicate ==
  [][ /\ (worker.pc = "deleteQuestion" /\ worker'.pc = "cachePromptHash") =>
           worker.job.data.params.questionId # worker.sqlInfo.questionId
      /\ \A q \in DOMAIN results : q \in DOMAIN questions' ]_vars

\* what a scheduleQuestionJob call has left behind: the job it enqueued, the
\* question it created, and the metadata row and prompt-cache entry of its job
LeftBehind(r) ==
  \/ reqs[r].job # 0 /\ reqs[r].job <= Len(jobs)
  \/ /\ reqs[r].questionIdParam = 0
     /\ reqs[r].questionId # 0
     /\ reqs[r].questionId \in DOMAIN questions
  \/ reqs[r].job # 0 /\ reqs[r].job \in DOMAIN jobMetadata
  \/ /\ reqs[r].job # 0
     /\ \E h \in DOMAIN promptCache : promptCache[h].jobId = reqs[r].job

\* C35 as stated: scheduleQuestionJob is all-or-nothing; once a call has
\* thrown, no job it enqueued is in the queue and no question, job metadata
\* or prompt-cache entry it created remains, so no planner or executor work
\* is done for it.
C35_ScheduleAllOrNothing ==
  \A r \in ReqIds :
    reqs[r].pc = "threw" =>
      /\ ~LeftBehind(r)
      /\ \A id \in DOMAIN trace : id # reqs[r].job

\* C36 as stated: when a subscriber's connection closes, the sink that
\* setupConnection registered for its job is removed from the registry: once
\* the close handler has run no sink is registered under the job's key, and
\* no later sendUpdate writes to the sink of a disconnected subscriber.
C36_DisconnectDeregistersSink ==
  [][ /\ \A s \in SubIds :
           (subs[s].pc = "open" /\ subs'[s].pc = "closed") =>
             generateCustomId(QUESTION_JOB_TYPE, subs[s].questionId)
               \notin DOMAIN activeConnections'
      /\ \A s \in SubIds :
           subs[s].pc = "closed" => sinks'[s].written = sinks[s].written ]_vars

\* the number of terminal events written to the sink of s; each of them
\* scheduled one close timer for the key the sink is registered under
TerminalWrites(s) == Cardinality(TerminalEvents(sinks[s].written))

\* C37 as stated: a close timer only closes the sink whose terminal write
\* scheduled it. All timers have the same delay, so the timer that fires for
\* a key is the oldest one pending, and the timers scheduled by writes to the
\* sink now registered are the newest ones: the firing timer belongs to the
\* sink it ends only when no more timers are pending for the key than
\* terminal events were written to that sink.
C37_TimerClosesOnlyItsOwnSink ==
  [][ \A key \in CustomIds : \A s \in SubIds :
        (TimerFires(key) /\ ~sinks[s].ended /\ sinks'[s].ended) =>
          PendingTimers(timers, key) <= TerminalWrites(s) ]_vars

\* the queries of a plan: the main query and the query of every CTE
QueriesOf(root) ==
  {root.main_query} \cup { root.ctes[i].query : i \in 1..Len(root.ctes) }

\* the query reads a wildcard day table and has, at no depth of its filters,
\* a filter on _TABLE_SUFFIX with =, IN or BETWEEN
ReadsWildcardUnfiltered(query) ==
  usesWildcardDayTable(query.table) /\ NoSuffixFilter(query)

\* C38 as stated: no SQL that reaches the executor reads a wildcard day
\* table, in the main query or in a CTE, without a filter on _TABLE_SUFFIX
\* with =, IN or BETWEEN in that same query: every plan that validatePlan
\* accepts and that compiles has no such query.
C38_NoUnfilteredWildcardScan ==
  ( /\ Validated
    /\ planner.validation.ok
    /\ Built ) =>
    \A query \in QueriesOf(planner.root) : ~ReadsWildcardUnfiltered(query)

\* C39 as stated: for every integer limit of a main-query plan, negative
\* ones included, the compiled main query ends with a LIMIT between 1 and
\* MAX_LIMIT.
C39_MainLimitBetweenOneAndMax ==
  Built =>
    EmittedLimit(planner.built.sql, Len(planner.built.sql))
      \in { <<ToString(n)>> : n \in 1..MAX_LIMIT }

====
